---------------------------- MODULE Spec2Model ----------------------------
(***************************************************************************)
(* The response-resolution pipeline of the clinic chatbot:                 *)
(* ClinicaChatbot.get_response (src/app.py) with its keyword classifier,   *)
(* text normaliser, provider chain, sentiment analysis and escalation.     *)
(*                                                                         *)
(* Texts.  A user message is the sequence of its characters.  A character  *)
(* is a one-letter string; a precomposed accented letter is written as the *)
(* letter followed by an ASCII sign ("e'" is e-acute, "a~" a-tilde, "c,"   *)
(* c-cedilla, "e^" e-circumflex), and a combining mark, one of the         *)
(* characters of Unicode category Mn that NFD produces, by its name.       *)
(* A response text is the sequence of its pieces: the phrases that         *)
(* translate_response looks for, and the stretches of text between them.   *)
(***************************************************************************)
EXTENDS Integers, Sequences, FiniteSets, TLC

VARIABLES
  AI_PROVIDER,           \* app.py:64, os.getenv('AI_PROVIDER', 'openai')
  client,                \* app.py:67-74, the module-level OpenAI client
  conversation_history,  \* self.conversation_history of each ClinicaChatbot
  pc,                    \* where the running get_response call stands
  self,                  \* the ClinicaChatbot the running call is bound to
  user_message,          \* argument of the running call
  language,              \* argument of the running call
  sentiment_result,      \* local of the running call
  lead_data,             \* the lead the running call handed to the CRM
  response,              \* local of the running call
  last_attempt,          \* the provider attempt made last in the running call
  log,                   \* the calls and requests made by the running call, in order
  served,                \* number of requests started so far
  session_id,            \* 'session_id' of the body of the running /chat request
  conversation_id,       \* conversation_id of get_response: session['conversation_id']
  tickets,               \* the rows of table tickets (src/database.py)
  conversations,         \* the rows of table conversations (src/database.py)
  sync_lead_calls,       \* the session of each lead handed to crm_integration.sync_lead
  http,                  \* the answer to the request served last
  threads,               \* the requests the server's threads are handling
  cookies,               \* session['conversation_id'] in the cookie of each browser
  files,                 \* the files written by ClinicaChatbot.save_conversation
  uuids                  \* number of uuid.uuid4() calls made by /reset

vars == <<AI_PROVIDER, client, conversation_history, pc, self, user_message,
          language, sentiment_result, lead_data, response, last_attempt, log, served,
          session_id, conversation_id, tickets, conversations, sync_lead_calls, http,
          threads, cookies, files, uuids>>

\* the requests in the hands of the server's threads, the cookies and the
\* files of saved conversations
server_state == <<threads, cookies, files, uuids>>

\* the request attributes and the stores of the /chat handler
handler_state == <<session_id, conversation_id, tickets, conversations, http, server_state>>

-----------------------------------------------------------------------------
(* Bounds *)

MaxRequests == 1

-----------------------------------------------------------------------------
(* Characters *)

LowerLetters ==
  <<"a","b","c","d","e","f","g","h","i","j","k","l","m",
    "n","o","p","q","r","s","t","u","v","w","x","y","z",
    "a'","e'","i'","o'","u'","a~","o~","a^","e^","o^","c,">>

UpperLetters ==
  <<"A","B","C","D","E","F","G","H","I","J","K","L","M",
    "N","O","P","Q","R","S","T","U","V","W","X","Y","Z",
    "A'","E'","I'","O'","U'","A~","O~","A^","E^","O^","C,">>

AsciiLower == {LowerLetters[i] : i \in 1..26}
Digits == {"0","1","2","3","4","5","6","7","8","9"}
Whitespace == {" ", "\t", "\n"}
Punctuation == {"!", "?", ".", ",", ":", "/", "-"}
CombiningMarks == {"ACUTE", "TILDE", "CIRCUMFLEX", "CEDILLA"}

Alphabet ==
  {LowerLetters[i] : i \in 1..Len(LowerLetters)} \cup
  {UpperLetters[i] : i \in 1..Len(UpperLetters)} \cup
  Digits \cup Whitespace \cup Punctuation \cup CombiningMarks

\* unicodedata.normalize('NFD', c) of one character
Decomposition ==
  [c \in Alphabet |->
     CASE c = "a'" -> <<"a","ACUTE">>      [] c = "A'" -> <<"A","ACUTE">>
       [] c = "e'" -> <<"e","ACUTE">>      [] c = "E'" -> <<"E","ACUTE">>
       [] c = "i'" -> <<"i","ACUTE">>      [] c = "I'" -> <<"I","ACUTE">>
       [] c = "o'" -> <<"o","ACUTE">>      [] c = "O'" -> <<"O","ACUTE">>
       [] c = "u'" -> <<"u","ACUTE">>      [] c = "U'" -> <<"U","ACUTE">>
       [] c = "a~" -> <<"a","TILDE">>      [] c = "A~" -> <<"A","TILDE">>
       [] c = "o~" -> <<"o","TILDE">>      [] c = "O~" -> <<"O","TILDE">>
       [] c = "a^" -> <<"a","CIRCUMFLEX">> [] c = "A^" -> <<"A","CIRCUMFLEX">>
       [] c = "e^" -> <<"e","CIRCUMFLEX">> [] c = "E^" -> <<"E","CIRCUMFLEX">>
       [] c = "o^" -> <<"o","CIRCUMFLEX">> [] c = "O^" -> <<"O","CIRCUMFLEX">>
       [] c = "c," -> <<"c","CEDILLA">>    [] c = "C," -> <<"C","CEDILLA">>
       [] OTHER -> <<c>>]

RECURSIVE NFD(_)
NFD(text) ==
  IF text = <<>> THEN <<>> ELSE Decomposition[Head(text)] \o NFD(Tail(text))

\* str.lower() of one character
LowerChar(c) ==
  IF \E i \in 1..Len(UpperLetters) : UpperLetters[i] = c
    THEN LowerLetters[CHOOSE i \in 1..Len(UpperLetters) : UpperLetters[i] = c]
    ELSE c

\* str.lower()
lower(text) == [i \in 1..Len(text) |-> LowerChar(text[i])]

\* the characters of text that satisfy keep, in order
RECURSIVE Filter(_, _)
Filter(text, keep) ==
  IF text = <<>> THEN <<>>
  ELSE (IF Head(text) \in keep THEN <<Head(text)>> ELSE <<>>) \o Filter(Tail(text), keep)

\* keyword in text, for two str
Contains(keyword, text) ==
  \E i \in 1..(Len(text) - Len(keyword) + 1) :
     SubSeq(text, i, i + Len(keyword) - 1) = keyword

\* any(keyword in text for keyword in keywords)
AnyIn(keywords, text) == \E k \in 1..Len(keywords) : Contains(keywords[k], text)

normalize_text_KeepPunctuation(text) ==
  LET stripped == Filter(NFD(text), Alphabet \ CombiningMarks)
      lowered  == lower(stripped)
  IN  lowered

\* ClinicaChatbot.normalize_text
normalize_text(text) ==
  LET stripped == Filter(NFD(text), Alphabet \ CombiningMarks)
      lowered  == lower(stripped)
  IN  Filter(lowered, AsciiLower \cup Digits \cup Whitespace)

contains_keywords_RawText(text, keywords) ==
  LET normalized_text == text
  IN  \E k \in 1..Len(keywords) :
         Contains(normalize_text(keywords[k]), normalized_text)

\* ClinicaChatbot.contains_keywords
contains_keywords(text, keywords) ==
  LET normalized_text == normalize_text(text)
  IN  \E k \in 1..Len(keywords) :
         Contains(normalize_text(keywords[k]), normalized_text)

-----------------------------------------------------------------------------
(* The keyword lists, letter for letter *)

\* tratamento_keywords of ClinicaChatbot.get_response_fallback (src/app.py:272-277)
fallback_tratamento_keywords ==
  <<
    <<"t","r","a","t","a","m","e","n","t","o">>, <<"t","e","r","a","p","i","a">>,
    <<"a","j","u","d","a">>, <<"t","r","a","t","a","r">>, <<"c","u","r","a","r">>,
    <<"c","u","r","a">>, <<"r","e","c","u","p","e","r","a","c","a","o">>,
    <<"r","e","c","u","p","e","r","a","c,","a~","o">>,
    <<"r","e","a","b","i","l","i","t","a","c","a","o">>,
    <<"r","e","a","b","i","l","i","t","a","c,","a~","o">>,
    <<"d","e","p","e","n","d","e","n","c","i","a">>,
    <<"d","e","p","e","n","d","e^","n","c","i","a">>, <<"v","i","c","i","o">>,
    <<"v","i'","c","i","o">>, <<"d","r","o","g","a","s">>, <<"a","l","c","o","o","l">>,
    <<"a'","l","c","o","o","l">>, <<"m","e","d","i","c","a","m","e","n","t","o">>,
    <<"r","e","m","e","d","i","o">>, <<"r","e","m","e'","d","i","o">>,
    <<"p","s","i","c","o","l","o","g","i","a">>, <<"p","s","i","q","u","i","a","t","r","i","a">>,
    <<"m","e","d","i","c","o">>, <<"m","e'","d","i","c","o">>, <<"d","o","u","t","o","r">>,
    <<"d","o","u","t","o","r","a">>, <<"t","e","r","a","p","e","u","t","a">>
  >>

\* internacao_keywords of ClinicaChatbot.get_response_fallback (src/app.py:280-285)
fallback_internacao_keywords ==
  <<
    <<"i","n","t","e","r","n","a","c","a","o">>, <<"i","n","t","e","r","n","a","c,","a~","o">>,
    <<"i","n","t","e","r","n","a","r">>, <<"c","o","m","o"," ","f","u","n","c","i","o","n","a">>,
    <<"f","u","n","c","i","o","n","a","m","e","n","t","o">>, <<"p","r","o","c","e","s","s","o">>,
    <<"p","r","o","c","e","d","i","m","e","n","t","o">>, <<"a","d","m","i","s","s","a","o">>,
    <<"a","d","m","i","s","s","a~","o">>, <<"e","n","t","r","a","d","a">>,
    <<"i","n","g","r","e","s","s","o">>, <<"c","l","i","n","i","c","a">>,
    <<"c","l","i'","n","i","c","a">>, <<"h","o","s","p","i","t","a","l">>,
    <<"i","n","s","t","i","t","u","i","c","a","o">>,
    <<"i","n","s","t","i","t","u","i","c,","a~","o">>, <<"c","e","n","t","r","o">>,
    <<"u","n","i","d","a","d","e">>,
    <<"e","s","t","a","b","e","l","e","c","i","m","e","n","t","o">>, <<"l","o","c","a","l">>,
    <<"o","n","d","e">>, <<"e","n","d","e","r","e","c","o">>, <<"e","n","d","e","r","e","c,","o">>
  >>

\* convenio_keywords of ClinicaChatbot.get_response_fallback (src/app.py:288-293)
fallback_convenio_keywords ==
  <<
    <<"c","o","n","v","e","n","i","o">>, <<"c","o","n","v","e^","n","i","o">>,
    <<"p","l","a","n","o">>, <<"p","r","e","c","o">>, <<"p","r","e","c,","o">>,
    <<"v","a","l","o","r">>, <<"c","u","s","t","o">>,
    <<"q","u","a","n","t","o"," ","c","u","s","t","a">>, <<"p","a","g","a","m","e","n","t","o">>,
    <<"p","a","g","a","r">>, <<"d","i","n","h","e","i","r","o">>,
    <<"f","i","n","a","n","c","e","i","r","o">>, <<"o","r","c","a","m","e","n","t","o">>,
    <<"o","r","c,","a","m","e","n","t","o">>, <<"s","e","g","u","r","o">>, <<"s","a","u","d","e">>,
    <<"s","a","u'","d","e">>, <<"u","n","i","m","e","d">>, <<"b","r","a","d","e","s","c","o">>,
    <<"s","u","l","a","m","e","r","i","c","a">>, <<"a","m","i","l">>,
    <<"p","a","r","t","i","c","u","l","a","r">>, <<"s","u","s">>,
    <<"g","r","a","t","u","i","t","o">>, <<"g","r","a","t","i","s">>, <<"g","r","a'","t","i","s">>
  >>

\* emergencia_keywords of ClinicaChatbot.get_response_fallback (src/app.py:296-301)
fallback_emergencia_keywords ==
  <<
    <<"e","m","e","r","g","e","n","c","i","a">>, <<"e","m","e","r","g","e^","n","c","i","a">>,
    <<"u","r","g","e","n","t","e">>, <<"u","r","g","e","n","c","i","a">>,
    <<"u","r","g","e^","n","c","i","a">>, <<"c","r","i","s","e">>, <<"s","o","c","o","r","r","o">>,
    <<"a","j","u","d","a"," ","i","m","e","d","i","a","t","a">>, <<"a","g","o","r","a">>,
    <<"r","a","p","i","d","o">>, <<"r","a'","p","i","d","o">>, <<"j","a">>, <<"j","a'">>,
    <<"d","e","s","e","s","p","e","r","o">>, <<"d","e","s","e","s","p","e","r","a","d">>,
    <<"s","u","i","c","i","d","i","o">>, <<"s","u","i","c","i'","d","i","o">>,
    <<"m","o","r","t","e">>, <<"m","o","r","r","e","r">>, <<"o","v","e","r","d","o","s","e">>,
    <<"i","n","t","o","x","i","c","a","c","a","o">>,
    <<"i","n","t","o","x","i","c","a","c,","a~","o">>, <<"2","4"," ","h","o","r","a","s">>,
    <<"2","4","h">>, <<"p","l","a","n","t","a","o">>, <<"p","l","a","n","t","a~","o">>
  >>

\* dependencia_keywords of ClinicaChatbot.get_response_fallback (src/app.py:304-309)
fallback_dependencia_keywords ==
  <<
    <<"d","e","p","e","n","d","e","n","t","e">>, <<"v","i","c","i","a","d","o">>,
    <<"a","d","i","c","t","o">>, <<"u","s","u","a","r","i","o">>, <<"u","s","u","a'","r","i","o">>,
    <<"c","o","n","s","u","m","i","d","o","r">>, <<"c","r","a","c","k">>,
    <<"c","o","c","a","i","n","a">>, <<"c","o","c","a","i'","n","a">>,
    <<"m","a","c","o","n","h","a">>, <<"c","a","n","n","a","b","i","s">>,
    <<"h","e","r","o","i","n","a">>, <<"h","e","r","o","i'","n","a">>,
    <<"e","c","s","t","a","s","y">>, <<"l","s","d">>, <<"a","n","f","e","t","a","m","i","n","a">>,
    <<"m","e","t","a","n","f","e","t","a","m","i","n","a">>, <<"o","p","i","o","i","d","e","s">>,
    <<"m","o","r","f","i","n","a">>, <<"c","o","d","e","i","n","a">>,
    <<"c","o","d","e","i'","n","a">>, <<"t","r","a","m","a","d","o","l">>,
    <<"r","i","v","o","t","r","i","l">>, <<"c","l","o","n","a","z","e","p","a","m">>,
    <<"a","l","p","r","a","z","o","l","a","m">>
  >>

\* identificacao_keywords of ClinicaChatbot.get_response_fallback (src/app.py:312-319)
fallback_identificacao_keywords ==
  <<
    <<"i","d","e","n","t","i","f","i","c","a","r">>, <<"i","d","e","n","t","i","f","i","c","o">>,
    <<"r","e","c","o","n","h","e","c","e","r">>, <<"p","e","r","c","e","b","e","r">>,
    <<"n","o","t","a","r">>, <<"d","e","s","c","o","b","r","i","r">>, <<"s","i","n","a","i","s">>,
    <<"s","i","n","t","o","m","a","s">>, <<"c","o","m","p","o","r","t","a","m","e","n","t","o">>,
    <<"m","u","d","a","n","c","a","s">>, <<"m","u","d","a","n","c,","a","s">>,
    <<"i","n","d","i","c","i","o","s">>, <<"i","n","d","i'","c","i","o","s">>,
    <<"c","o","m","o"," ","s","a","b","e","r">>, <<"c","o","m","o"," ","s","e","i">>,
    <<"c","o","m","o"," ","d","e","s","c","o","b","r","i","r">>,
    <<"c","o","m","o"," ","p","e","r","c","e","b","e","r">>,
    <<"c","o","m","o"," ","i","d","e","n","t","i","f","i","c","a","r">>,
    <<"p","e","s","s","o","a"," ","v","i","c","i","a","d","a">>,
    <<"a","l","g","u","e","m"," ","v","i","c","i","a","d","o">>,
    <<"a","l","g","u","e'","m"," ","v","i","c","i","a","d","o">>,
    <<"f","a","m","i","l","i","a","r"," ","v","i","c","i","a","d","o">>,
    <<"c","a","r","a","c","t","e","r","i","s","t","i","c","a","s">>,
    <<"c","a","r","a","c","t","e","r","i'","s","t","i","c","a","s">>,
    <<"m","a","n","i","f","e","s","t","a","c","o","e","s">>,
    <<"m","a","n","i","f","e","s","t","a","c,","o~","e","s">>,
    <<"e","v","i","d","e","n","c","i","a","s">>, <<"e","v","i","d","e^","n","c","i","a","s">>,
    <<"p","i","s","t","a","s">>, <<"a","l","e","r","t","a","s">>, <<"a","v","i","s","o","s">>
  >>

\* contato_keywords of ClinicaChatbot.get_response_fallback (src/app.py:322-328)
fallback_contato_keywords ==
  <<
    <<"t","e","l","e","f","o","n","e">>, <<"f","o","n","e">>, <<"n","u","m","e","r","o">>,
    <<"n","u'","m","e","r","o">>, <<"c","o","n","t","a","t","o">>, <<"l","i","g","a","r">>,
    <<"f","a","l","a","r">>, <<"c","o","m","u","n","i","c","a","r">>,
    <<"e","n","t","r","a","r"," ","e","m"," ","c","o","n","t","a","t","o">>,
    <<"c","o","m","o"," ","f","a","l","a","r">>, <<"c","o","m","o"," ","l","i","g","a","r">>,
    <<"t","e","l","e","f","o","n","e"," ","d","a"," ","c","l","i","n","i","c","a">>,
    <<"t","e","l","e","f","o","n","e"," ","d","a"," ","c","l","i'","n","i","c","a">>,
    <<"n","u","m","e","r","o"," ","d","a"," ","c","l","i","n","i","c","a">>,
    <<"n","u'","m","e","r","o"," ","d","a"," ","c","l","i'","n","i","c","a">>,
    <<"c","o","n","t","a","t","o"," ","d","a"," ","c","l","i","n","i","c","a">>,
    <<"c","o","n","t","a","t","o"," ","d","a"," ","c","l","i'","n","i","c","a">>,
    <<"c","o","m","o"," ","e","n","t","r","a","r"," ","e","m"," ","c","o","n","t","a","t","o">>,
    <<"w","h","a","t","s","a","p","p">>, <<"c","e","l","u","l","a","r">>, <<"f","i","x","o">>,
    <<"r","a","m","a","l">>, <<"a","t","e","n","d","i","m","e","n","t","o">>,
    <<"r","e","c","e","p","c","a","o">>, <<"r","e","c","e","p","c,","a~","o">>
  >>

\* tratamento_keywords of ClinicaChatbot.get_response (src/app.py:517-526)
tratamento_keywords ==
  <<
    <<"t","r","a","t","a","m","e","n","t","o">>, <<"t","e","r","a","p","i","a">>,
    <<"a","j","u","d","a">>, <<"t","r","a","t","a","r">>, <<"c","u","r","a","r">>,
    <<"c","u","r","a">>, <<"r","e","c","u","p","e","r","a","c","a","o">>,
    <<"r","e","c","u","p","e","r","a","c,","a~","o">>,
    <<"r","e","a","b","i","l","i","t","a","c","a","o">>,
    <<"r","e","a","b","i","l","i","t","a","c,","a~","o">>,
    <<"d","e","p","e","n","d","e","n","c","i","a">>,
    <<"d","e","p","e","n","d","e^","n","c","i","a">>, <<"v","i","c","i","o">>,
    <<"v","i'","c","i","o">>, <<"d","r","o","g","a","s">>, <<"a","l","c","o","o","l">>,
    <<"a'","l","c","o","o","l">>, <<"m","e","d","i","c","a","m","e","n","t","o">>,
    <<"r","e","m","e","d","i","o">>, <<"r","e","m","e'","d","i","o">>,
    <<"p","s","i","c","o","l","o","g","i","a">>, <<"p","s","i","q","u","i","a","t","r","i","a">>,
    <<"m","e","d","i","c","o">>, <<"m","e'","d","i","c","o">>, <<"d","o","u","t","o","r">>,
    <<"d","o","u","t","o","r","a">>, <<"t","e","r","a","p","e","u","t","a">>,
    <<"1","2"," ","p","a","s","s","o","s">>, <<"d","o","z","e"," ","p","a","s","s","o","s">>,
    <<"p","r","o","g","r","a","m","a">>, <<"c","o","m","o"," ","f","u","n","c","i","o","n","a">>,
    <<"f","u","n","c","i","o","n","a">>, <<"f","u","n","c","i","o","n","a","m","e","n","t","o">>,
    <<"d","e","s","i","n","t","o","x","i","c","a","c","a","o">>,
    <<"d","e","s","i","n","t","o","x","i","c","a","c,","a~","o">>, <<"t","c","c">>,
    <<"c","o","g","n","i","t","i","v","o">>,
    <<"c","o","m","p","o","r","t","a","m","e","n","t","a","l">>,
    <<"i","n","d","i","v","i","d","u","a","l">>, <<"g","r","u","p","o">>,
    <<"f","a","m","i","l","i","a","r">>, <<"a","t","i","v","i","d","a","d","e","s">>,
    <<"p","s","i","q","u","i","a","t","r","i","c","o">>,
    <<"p","s","i","q","u","i","a'","t","r","i","c","o">>, <<"a","p","o","i","o">>,
    <<"g","r","u","p","o","s">>, <<"m","a","i","s"," ","s","o","b","r","e">>,
    <<"f","a","l","e"," ","m","a","i","s">>, <<"e","x","p","l","i","q","u","e">>,
    <<"d","e","t","a","l","h","e">>, <<"d","e","t","a","l","h","e","s">>
  >>

\* dependencia_keywords of ClinicaChatbot.get_response (src/app.py:528-533)
dependencia_keywords ==
  <<
    <<"d","e","p","e","n","d","e","n","t","e">>, <<"v","i","c","i","a","d","o">>,
    <<"a","d","i","c","t","o">>, <<"u","s","u","a","r","i","o">>, <<"u","s","u","a'","r","i","o">>,
    <<"c","o","n","s","u","m","i","d","o","r">>, <<"c","r","a","c","k">>,
    <<"c","o","c","a","i","n","a">>, <<"c","o","c","a","i'","n","a">>,
    <<"m","a","c","o","n","h","a">>, <<"c","a","n","n","a","b","i","s">>,
    <<"h","e","r","o","i","n","a">>, <<"h","e","r","o","i'","n","a">>,
    <<"e","c","s","t","a","s","y">>, <<"l","s","d">>, <<"a","n","f","e","t","a","m","i","n","a">>,
    <<"m","e","t","a","n","f","e","t","a","m","i","n","a">>, <<"o","p","i","o","i","d","e","s">>,
    <<"m","o","r","f","i","n","a">>, <<"c","o","d","e","i","n","a">>,
    <<"c","o","d","e","i'","n","a">>, <<"t","r","a","m","a","d","o","l">>,
    <<"r","i","v","o","t","r","i","l">>, <<"c","l","o","n","a","z","e","p","a","m">>,
    <<"a","l","p","r","a","z","o","l","a","m">>
  >>

\* high_priority_keywords of ClinicaChatbot.detect_urgency_and_create_ticket (src/app.py:592-596)
high_priority_keywords ==
  <<
    <<"e","m","e","r","g","e^","n","c","i","a">>, <<"u","r","g","e","n","t","e">>,
    <<"s","o","c","o","r","r","o">>, <<"a","j","u","d","a">>, <<"c","r","i","s","e">>,
    <<"o","v","e","r","d","o","s","e">>, <<"s","u","i","c","i'","d","i","o">>,
    <<"m","o","r","t","e">>, <<"m","o","r","r","e","r">>, <<"d","e","s","e","s","p","e","r","o">>,
    <<"n","a~","o"," ","a","g","u","e","n","t","o">>,
    <<"v","o","u"," ","m","e"," ","m","a","t","a","r">>,
    <<"a","c","a","b","a","r"," ","c","o","m"," ","t","u","d","o">>
  >>

\* medium_priority_keywords of ClinicaChatbot.detect_urgency_and_create_ticket (src/app.py:599-603)
medium_priority_keywords ==
  <<
    <<"i","n","t","e","r","n","a","c,","a~","o">>, <<"i","n","t","e","r","n","a","r">>,
    <<"t","r","a","t","a","m","e","n","t","o">>, <<"d","e","p","e","n","d","e^","n","c","i","a">>,
    <<"v","i'","c","i","o">>, <<"d","r","o","g","a","s">>, <<"a'","l","c","o","o","l">>,
    <<"b","e","b","i","d","a">>, <<"c","o","c","a","i'","n","a">>, <<"c","r","a","c","k">>,
    <<"m","a","c","o","n","h","a">>, <<"r","e","m","e'","d","i","o">>,
    <<"m","e","d","i","c","a","m","e","n","t","o">>
  >>

\* self.emergency_keywords of SentimentAnalyzer (src/sentiment_analysis.py:7-12)
emergency_keywords ==
  <<
    <<"s","u","i","c","i'","d","i","o">>, <<"s","u","i","c","i","d","i","o">>,
    <<"m","a","t","a","r">>, <<"m","o","r","r","e","r">>, <<"m","o","r","t","e">>,
    <<"a","c","a","b","a","r"," ","c","o","m"," ","t","u","d","o">>,
    <<"n","a~","o"," ","a","g","u","e","n","t","o"," ","m","a","i","s">>,
    <<"n","a","o"," ","a","g","u","e","n","t","o"," ","m","a","i","s">>,
    <<"d","e","s","e","s","p","e","r","o">>, <<"d","e","s","e","s","p","e","r","a","d">>,
    <<"o","v","e","r","d","o","s","e">>, <<"i","n","t","o","x","i","c","a","c,","a~","o">>,
    <<"i","n","t","o","x","i","c","a","c","a","o">>, <<"c","r","i","s","e">>,
    <<"e","m","e","r","g","e^","n","c","i","a">>, <<"e","m","e","r","g","e","n","c","i","a">>,
    <<"s","o","c","o","r","r","o">>, <<"a","j","u","d","a"," ","u","r","g","e","n","t","e">>,
    <<"u","r","g","e","n","t","e">>, <<"a","g","o","r","a">>,
    <<"i","m","e","d","i","a","t","a","m","e","n","t","e">>
  >>

\* self.positive_keywords of SentimentAnalyzer (src/sentiment_analysis.py:14-18)
positive_keywords ==
  <<
    <<"o","b","r","i","g","a","d","o">>, <<"o","b","r","i","g","a","d","a">>,
    <<"a","g","r","a","d","e","c","o">>, <<"a","g","r","a","d","e","c,","o">>,
    <<"g","r","a","t","o">>, <<"g","r","a","t","a">>, <<"a","j","u","d","o","u">>,
    <<"m","e","l","h","o","r">>, <<"b","e","m">>, <<"f","e","l","i","z">>,
    <<"e","s","p","e","r","a","n","c,","a">>, <<"e","s","p","e","r","a","n","c","a">>,
    <<"o","t","i","m","i","s","t","a">>, <<"c","o","n","f","i","a","n","t","e">>,
    <<"m","o","t","i","v","a","d","o">>, <<"m","o","t","i","v","a","d","a">>,
    <<"p","o","s","i","t","i","v","o">>, <<"p","o","s","i","t","i","v","a">>
  >>

\* self.negative_keywords of SentimentAnalyzer (src/sentiment_analysis.py:20-24)
negative_keywords ==
  <<
    <<"t","r","i","s","t","e">>, <<"d","e","p","r","i","m","i","d","o">>,
    <<"d","e","p","r","i","m","i","d","a">>, <<"a","n","s","i","o","s","o">>,
    <<"a","n","s","i","o","s","a">>, <<"p","r","e","o","c","u","p","a","d","o">>,
    <<"p","r","e","o","c","u","p","a","d","a">>, <<"m","e","d","o">>, <<"r","e","c","e","i","o">>,
    <<"n","e","r","v","o","s","o">>, <<"n","e","r","v","o","s","a">>,
    <<"e","s","t","r","e","s","s","a","d","o">>, <<"e","s","t","r","e","s","s","a","d","a">>,
    <<"c","a","n","s","a","d","o">>, <<"c","a","n","s","a","d","a">>,
    <<"f","r","u","s","t","r","a","d","o">>, <<"f","r","u","s","t","r","a","d","a">>
  >>

-----------------------------------------------------------------------------
(* The canned templates, cut at the phrases translate_response replaces *)

\* src/app.py:332-368
TemplateIdentificacao ==
  <<"[identificacao 1]">>

\* src/app.py:375-395
TemplateInternacao ==
  <<"[internacao 1]", "tratamento", "[internacao 2]">>

\* src/app.py:398-420
TemplateConvenio ==
  <<"[convenio 1]", "convenio", "[convenio 2]", "convenio", "[convenio 3]">>

\* src/app.py:423-441
TemplateEmergencia ==
  <<"[emergencia 1]">>

\* src/app.py:444-469
TemplateContato ==
  <<"[contato 1]", "tratamento", "[contato 2]", "convenio", "[contato 3]">>

\* src/app.py:472-491
TemplateSaudacao ==
  <<"[saudacao 1]", "Ola", "[saudacao 2]", "Clinica Espaco Vida", "[saudacao 3]", "emergencia", "[saudacao 4]", "tratamento", "[saudacao 5]", "convenio", "[saudacao 6]">>

\* src/app.py:557-573
TemplateTratamentos ==
  <<"[tratamentos 1]", "tratamento", "[tratamentos 2]">>

-----------------------------------------------------------------------------
(* Values *)

\* Python's None, a value that is no text
None == <<"None">>

\* a JSON number sent as the "message" of a request: a value that is no str
JsonNumber == <<"123">>

\* isinstance(v, str) for the values a message can be
IsStr(v) == \A i \in 1..Len(v) : v[i] \in Alphabet

\* Python truth of a response: neither None nor the empty string
Truthy(v) == v # None /\ v # <<>>

\* a text each backend may generate; as any text about the clinic may, two of
\* them hold phrases that translate_response replaces
OpenAIText == <<"[openai text 1]", "tratamento", "[openai text 2]">>
HuggingFaceText == <<"[huggingface text]">>
GeminiText == <<"[gemini text 1]", "Ola", "[gemini text 2]">>

-----------------------------------------------------------------------------
(* The messages of the model *)

msg_oi == <<"o","i">>
msg_sinais == <<"s","i","n","a","i","s">>
msg_tratamento == <<"t","r","a","t","a","m","e","n","t","o">>
msg_como_funciona == <<"c","o","m","o"," ","f","u","n","c","i","o","n","a">>
msg_plano == <<"p","l","a","n","o">>
msg_socorro == <<"s","o","c","o","r","r","o">>
msg_telefone == <<"t","e","l","e","f","o","n","e">>
msg_sinais_de_vicio ==
  <<"S","i","n","a","i","s"," ","d","e"," ","v","i'","c","i","o","?">>

StrMessages ==
  {msg_oi, msg_sinais, msg_tratamento, msg_como_funciona, msg_plano,
   msg_socorro, msg_telefone, msg_sinais_de_vicio}

Messages == StrMessages \cup {JsonNumber}

-----------------------------------------------------------------------------
(* Keyword classifier *)

get_response_fallback_EmergencyFirst(text) ==
  IF contains_keywords(text, fallback_emergencia_keywords)
    THEN TemplateEmergencia
  ELSE IF contains_keywords(text, fallback_identificacao_keywords)
    THEN TemplateIdentificacao
  ELSE IF contains_keywords(text, fallback_tratamento_keywords \o fallback_dependencia_keywords)
    THEN None
  ELSE IF contains_keywords(text, fallback_internacao_keywords)
    THEN TemplateInternacao
  ELSE IF contains_keywords(text, fallback_convenio_keywords)
    THEN TemplateConvenio
  ELSE IF contains_keywords(text, fallback_contato_keywords)
    THEN TemplateContato
  ELSE TemplateSaudacao

\* ClinicaChatbot.get_response_fallback: None is the treatment sentinel
get_response_fallback(text) ==
  IF contains_keywords(text, fallback_identificacao_keywords)
    THEN TemplateIdentificacao
  ELSE IF contains_keywords(text, fallback_tratamento_keywords \o fallback_dependencia_keywords)
    THEN None
  ELSE IF contains_keywords(text, fallback_internacao_keywords)
    THEN TemplateInternacao
  ELSE IF contains_keywords(text, fallback_convenio_keywords)
    THEN TemplateConvenio
  ELSE IF contains_keywords(text, fallback_emergencia_keywords)
    THEN TemplateEmergencia
  ELSE IF contains_keywords(text, fallback_contato_keywords)
    THEN TemplateContato
  ELSE TemplateSaudacao

\* get_response, the local is_treatment_question
is_treatment_question(text) ==
  contains_keywords(text, tratamento_keywords \o dependencia_keywords)

\* the two classifications of each message of the model, computed once
Fallback == [m \in StrMessages |-> get_response_fallback(m)]
IsTreatmentQuestion == [m \in StrMessages |-> is_treatment_question(m)]

-----------------------------------------------------------------------------
(* Sentiment analysis (src/sentiment_analysis.py).  Polarity, subjectivity *)
(* and confidence are counted in thousandths.                              *)

AsciiLetters == AsciiLower \cup {UpperLetters[i] : i \in 1..26}

\* the characters the URL pattern of clean_text repeats after "://"
UrlChars == AsciiLetters \cup Digits \cup Punctuation

\* the length of the longest prefix of text made of characters of S
RECURSIVE RunLen(_, _)
RunLen(text, S) ==
  IF text # <<>> /\ Head(text) \in S THEN 1 + RunLen(Tail(text), S) ELSE 0

Drop(text, n) == SubSeq(text, n + 1, Len(text))

StartsWith(text, prefix) ==
  Len(text) >= Len(prefix) /\ SubSeq(text, 1, Len(prefix)) = prefix

\* the length of the match of http[s]?://(...)+ at the start of text, 0 if none
UrlMatchLen(text) ==
  LET scheme == IF StartsWith(text, <<"h","t","t","p","s">>) THEN 5
                ELSE IF StartsWith(text, <<"h","t","t","p">>) THEN 4 ELSE 0
      rest   == Drop(text, scheme)
      run    == RunLen(Drop(rest, 3), UrlChars)
  IN  IF scheme > 0 /\ StartsWith(rest, <<":","/","/">>) /\ run > 0
        THEN scheme + 3 + run ELSE 0

RECURSIVE RemoveUrls(_)
RemoveUrls(text) ==
  IF text = <<>> THEN <<>>
  ELSE IF UrlMatchLen(text) > 0 THEN RemoveUrls(Drop(text, UrlMatchLen(text)))
  ELSE <<Head(text)>> \o RemoveUrls(Tail(text))

\* re.sub of a run of at least atLeast characters of S by replacement
RECURSIVE CollapseRuns(_, _, _, _)
CollapseRuns(text, S, atLeast, replacement) ==
  IF text = <<>> THEN <<>>
  ELSE LET n == RunLen(text, S)
       IN  IF n >= atLeast
             THEN replacement \o CollapseRuns(Drop(text, n), S, atLeast, replacement)
           ELSE IF n > 0
             THEN SubSeq(text, 1, n) \o CollapseRuns(Drop(text, n), S, atLeast, replacement)
           ELSE <<Head(text)>> \o CollapseRuns(Tail(text), S, atLeast, replacement)

\* str.strip()
RECURSIVE strip(_)
strip(text) ==
  IF text # <<>> /\ Head(text) \in Whitespace THEN strip(Tail(text))
  ELSE IF text # <<>> /\ text[Len(text)] \in Whitespace
    THEN strip(SubSeq(text, 1, Len(text) - 1))
  ELSE text

\* SentimentAnalyzer.clean_text
clean_text(text) ==
  LET t1 == RemoveUrls(text)
      t2 == CollapseRuns(t1, {"!"}, 2, <<"!">>)
      t3 == CollapseRuns(t2, {"?"}, 2, <<"?">>)
      t4 == CollapseRuns(t3, {"."}, 3, <<".",".",".">>)
  IN  strip(CollapseRuns(t4, Whitespace, 1, <<" ">>))

check_emergency_level_HighAtThree(text) ==
  LET emergency_count ==
        Cardinality({k \in 1..Len(emergency_keywords) : Contains(emergency_keywords[k], text)})
  IN  IF emergency_count >= 3 THEN "high"
      ELSE IF emergency_count = 1 THEN "medium"
      ELSE "low"

\* SentimentAnalyzer._check_emergency_level
check_emergency_level(text) ==
  LET emergency_count ==
        Cardinality({k \in 1..Len(emergency_keywords) : Contains(emergency_keywords[k], text)})
  IN  IF emergency_count >= 2 THEN "high"
      ELSE IF emergency_count = 1 THEN "medium"
      ELSE "low"

\* the keywords of a list found in text, in the order of the list
RECURSIVE FoundIn(_, _, _)
FoundIn(keywords, category, text) ==
  IF keywords = <<>> THEN <<>>
  ELSE (IF Contains(Head(keywords), text) THEN <<<<category, Head(keywords)>>>> ELSE <<>>)
       \o FoundIn(Tail(keywords), category, text)

\* SentimentAnalyzer._find_keywords
find_keywords(text) ==
  FoundIn(emergency_keywords, "emergency", text)
    \o FoundIn(positive_keywords, "positive", text)
    \o FoundIn(negative_keywords, "negative", text)

Abs(x) == IF x < 0 THEN -x ELSE x
Min(a, b) == IF a <= b THEN a ELSE b
Max(a, b) == IF a >= b THEN a ELSE b

\* SentimentAnalyzer.analyze_sentiment of a str; blob is what TextBlob computes
\* for the cleaned text.  The field 'language' (langdetect's guess, read by
\* nothing in the pipeline) is not carried.
analyze_sentiment(text, blob) ==
  IF text = <<>> \/ Len(strip(text)) < 3
    THEN [sentiment |-> "neutral", polarity |-> 0, subjectivity |-> 0, confidence |-> 0,
          emergency_level |-> "low", keywords_found |-> <<>>]
    ELSE
      LET cleaned_text == clean_text(text)
          polarity == blob.polarity
          subjectivity == blob.subjectivity
          sentiment0 == IF polarity > 100 THEN "positive"
                        ELSE IF polarity < -100 THEN "negative" ELSE "neutral"
          confidence0 == Min(Abs(polarity) + subjectivity, 1000)
          emergency_level == check_emergency_level(lower(cleaned_text))
          keywords_found == find_keywords(lower(cleaned_text))
          adjusted ==
            IF emergency_level = "high"
              THEN <<"emergency", Max(confidence0, 800)>>
            ELSE IF AnyIn(positive_keywords, lower(cleaned_text))
              THEN <<"positive", Max(confidence0, 600)>>
            ELSE IF AnyIn(negative_keywords, lower(cleaned_text))
              THEN <<"negative", Max(confidence0, 600)>>
            ELSE <<sentiment0, confidence0>>
      IN  [sentiment |-> adjusted[1], polarity |-> polarity, subjectivity |-> subjectivity,
           confidence |-> adjusted[2], emergency_level |-> emergency_level,
           keywords_found |-> keywords_found]

\* what TextBlob may compute for a text
TextBlobResults ==
  { [polarity |-> 0, subjectivity |-> 0],
    [polarity |-> -600, subjectivity |-> 900] }

\* the sentiment results of each message of the model, computed once
Sentiments ==
  [m \in StrMessages |-> [b \in TextBlobResults |-> analyze_sentiment(m, b)]]

-----------------------------------------------------------------------------
(* Escalation *)

\* dict.get(key) of a sentiment result: None for a key the dict does not hold
Get(dict, key, default) == IF key \in DOMAIN dict THEN dict[key] ELSE default

keyword_pass_MediumFirst(text) ==
  LET user_input_lower == lower(text)
  IN  IF AnyIn(medium_priority_keywords, user_input_lower) THEN "me'dia"
      ELSE IF AnyIn(high_priority_keywords, user_input_lower) THEN "alta"
      ELSE "baixa"

\* detect_urgency_and_create_ticket, the priority by keywords (app.py:605-612)
keyword_pass(text) ==
  LET user_input_lower == lower(text)
  IN  IF AnyIn(high_priority_keywords, user_input_lower) THEN "alta"
      ELSE IF AnyIn(medium_priority_keywords, user_input_lower) THEN "me'dia"
      ELSE "baixa"

\* the condition of the branch that forces 'alta' (app.py:616)
forced_alta(sentiment) ==
  LET emergency == Get(sentiment, "emergency_keywords", None)
  IN  Get(sentiment, "polarity", 0) < -500 /\ emergency # None /\ emergency # <<>>

urgency_priority_Overwrite(text, sentiment) ==
  LET byKeywords == keyword_pass(text)
  IN  IF forced_alta(sentiment) THEN "alta"
      ELSE IF Get(sentiment, "polarity", 0) < -300 THEN "me'dia"
      ELSE byKeywords

\* detect_urgency_and_create_ticket, the priority it computes (app.py:605-620)
urgency_priority(text, sentiment) ==
  LET byKeywords == keyword_pass(text)
  IN  IF forced_alta(sentiment) THEN "alta"
      ELSE IF Get(sentiment, "polarity", 0) < -300
        THEN (IF byKeywords = "baixa" THEN "me'dia" ELSE byKeywords)
      ELSE byKeywords

\* the priority of each message of the model with each sentiment result it can
\* have, computed once
Priority ==
  [m \in StrMessages |->
     [s \in {Sentiments[m][b] : b \in TextBlobResults} |-> urgency_priority(m, s)]]

-----------------------------------------------------------------------------
(* The provider backends.  Each function is the body of its try block      *)
(* wrapped in its except clause.  A call yields what the function returns, *)
(* whether an exception left it, and the network request it issued.        *)

\* what the remote service may do with a request
Outcomes ==
  {"text", "empty", "http_error", "transport_error", "timeout", "bad_json", "bad_shape"}

Return(value, request) == [raised |-> FALSE, value |-> value, request |-> request]
Raise(request) == [raised |-> TRUE, value |-> None, request |-> request]

\* except Exception as e: print(...); return None
ExceptReturnNone(call) ==
  IF call.raised THEN [call EXCEPT !.raised = FALSE, !.value = None] ELSE call

\* the module-level client (app.py:67-74): not defined unless AI_PROVIDER is
\* 'openai', None if the constructor raised, else an OpenAI object holding the
\* key of the environment or the placeholder 'sua_api_key_aqui'
ClientObjects == {"OpenAI(api_key=OPENAI_API_KEY)", "OpenAI(api_key='sua_api_key_aqui')"}
ClientValues == ClientObjects \cup {"None", "undefined"}

\* os.getenv(name) at the time of one call: set and not empty, or not
KeyStates == {"set", "unset"}

\* get_response_openai, the try block (app.py:151-159)
openai_try(cl, outcome) ==
  IF cl \notin ClientObjects
    THEN Raise("no request")  \* NameError or AttributeError at client.chat
  ELSE IF outcome = "text" THEN Return(OpenAIText, cl)
  ELSE IF outcome = "empty" THEN Return(<<>>, cl)
  ELSE Raise(cl)

\* ClinicaChatbot.get_response_openai
get_response_openai(cl, outcome) ==
  ExceptReturnNone(openai_try(cl, outcome))

\* get_response_huggingface, the try block (app.py:169-194)
huggingface_try(api_key, outcome) ==
  LET headers == IF api_key = "set" THEN "Authorization: Bearer HUGGINGFACE_API_KEY"
                 ELSE "no Authorization header"
  IN  IF outcome \in {"transport_error", "timeout"} THEN Raise(headers)
      ELSE IF outcome = "http_error" THEN Return(None, headers)
      ELSE IF outcome = "bad_json" THEN Raise(headers)
      ELSE IF outcome = "bad_shape" THEN Return(None, headers)
      ELSE IF outcome = "empty" THEN Return(<<>>, headers)
      ELSE Return(HuggingFaceText, headers)

\* get_response_huggingface without its except clause (app.py:195-197)
get_response_huggingface_NoExcept(api_key, outcome) == huggingface_try(api_key, outcome)

\* ClinicaChatbot.get_response_huggingface
get_response_huggingface(api_key, outcome) ==
  ExceptReturnNone(huggingface_try(api_key, outcome))

\* get_response_gemini, the try block without the test of its key (app.py:205-207)
gemini_try_NoKeyCheck(api_key, outcome) ==
  LET url == IF api_key = "set" THEN "key=GOOGLE_API_KEY" ELSE "key=None"
  IN  IF outcome \in {"transport_error", "timeout", "bad_json"} THEN Raise(url)
      ELSE IF outcome \in {"http_error", "bad_shape"} THEN Return(None, url)
      ELSE IF outcome = "empty" THEN Return(<<>>, url)
      ELSE Return(GeminiText, url)

\* get_response_gemini, the try block (app.py:204-231)
gemini_try(api_key, outcome) ==
  IF api_key = "unset" THEN Return(None, "no request")
  ELSE IF outcome \in {"transport_error", "timeout"} THEN Raise("key=GOOGLE_API_KEY")
  ELSE IF outcome = "http_error" THEN Return(None, "key=GOOGLE_API_KEY")
  ELSE IF outcome = "bad_json" THEN Raise("key=GOOGLE_API_KEY")
  ELSE IF outcome = "bad_shape" THEN Return(None, "key=GOOGLE_API_KEY")
  ELSE IF outcome = "empty" THEN Return(<<>>, "key=GOOGLE_API_KEY")
  ELSE Return(GeminiText, "key=GOOGLE_API_KEY")

\* ClinicaChatbot.get_response_gemini
get_response_gemini(api_key, outcome) ==
  ExceptReturnNone(gemini_try(api_key, outcome))

-----------------------------------------------------------------------------
(* Translation (src/multilingual.py), with the default translation tables *)

default_language == "pt"
supported_languages == {"pt", "en", "es", "fr", "it"}

\* the languages a request of the model may ask for; "de" is not supported
Languages == {"pt", "en", "de"}

Phrases == {"Ola", "Obrigado", "Clinica Espaco Vida", "emergencia", "tratamento", "convenio"}

\* translate_response, the dict common_phrases['pt'] for a target language:
\* get_translation falls back to the default language for an unsupported one.
\* Of the supported languages the model carries the tables of "en" and "pt".
common_phrases(target_language) ==
  LET lang == IF target_language \in supported_languages
                THEN target_language ELSE default_language
  IN  [p \in Phrases |->
        IF lang = "en" THEN
          CASE p = "Ola" -> "Hello"
            [] p = "Obrigado" -> "Thank"
            [] p = "Clinica Espaco Vida" -> "Clinica Espaco Vida"
            [] p = "emergencia" ->
                 "I detected that you might be going through an emergency situation"
            [] p = "tratamento" ->
                 "We offer specialized treatment for chemical dependency and mental health"
            [] p = "convenio" -> "We accept various health insurance plans"
        ELSE IF lang = "pt" THEN
          CASE p = "Ola" -> "Ola"
            [] p = "Obrigado" -> "Obrigado"
            [] p = "Clinica Espaco Vida" -> "Clinica Espaco Vida"
            [] p = "emergencia" ->
                 "Detectei que voce pode estar passando por uma situacao de emergencia"
            [] p = "tratamento" ->
                 "Oferecemos tratamento especializado em dependencia quimica e saude mental"
            [] p = "convenio" -> "Aceitamos diversos convenios medicos"
        ELSE CHOOSE untranslated \in {} : TRUE]

translate_response_NoDefaultCheck(text, target_language) ==
  [i \in 1..Len(text) |->
     IF text[i] \in Phrases THEN common_phrases(target_language)[text[i]] ELSE text[i]]

\* MultilingualSupport.translate_response of a str
translate_response(text, target_language) ==
  IF target_language = default_language THEN text
  ELSE [i \in 1..Len(text) |->
          IF text[i] \in Phrases THEN common_phrases(target_language)[text[i]] ELSE text[i]]

-----------------------------------------------------------------------------
(* The state machine: one get_response call at a time, step by step *)

Providers == {"openai", "huggingface", "gemini", "fallback"}

\* the global chatbot (app.py:657) and the one /chat/<language> builds (app.py:1152)
Instances == {"chatbot", "chatbot_instance"}

\* a local of dict type that is not assigned yet
Unassigned == [unassigned |-> TRUE]

\* the record of one backend call: the key it found, what the service did
\* with its request, and what came of it
NoAttempt ==
  [provider |-> "none", api_key |-> "unset", outcome |-> "none", raised |-> FALSE,
   value |-> None, request |-> "no request"]

Attempt(provider, api_key, outcome, call) ==
  [provider |-> provider, api_key |-> api_key,
   outcome |-> IF call.request = "no request" THEN "none" ELSE outcome,
   raised |-> call.raised, value |-> call.value, request |-> call.request]

\* what the CRM may do with a lead
CrmOutcomes == {"success", "failure", "exception"}

\* crm_integration.sync_lead as called at app.py:631
sync_lead(outcome) == [raised |-> outcome = "exception", success |-> outcome = "success"]

\* the same call without the except clauses around it (app.py:632, 636)
ExceptPass_Unguarded(call) == call

\* app.py:623-635, try: ... sync_lead ... except Exception: print(...)
ExceptPass(call) == [call EXCEPT !.raised = FALSE]

\* the statements of get_response with lines 504-509 moved before line 501
after_UserAppendFirst(step) ==
  CASE step = "idle" -> "analyze_sentiment"
    [] step = "analyze_sentiment" -> "append_user"
    [] step = "append_user" -> "detect_urgency"
    [] step = "detect_urgency" -> "route"
    [] step = "try_openai" -> "try_huggingface"
    [] step = "try_huggingface" -> "try_gemini"
    [] step = "try_gemini" -> "fallback"
    [] step = "fallback" -> "translate"
    [] step = "translate" -> "append_assistant"
    [] step = "append_assistant" -> "returned"

\* the statements of get_response with the chain started over after Gemini
after_ChainAgain(step) ==
  CASE step = "idle" -> "analyze_sentiment"
    [] step = "analyze_sentiment" -> "detect_urgency"
    [] step = "detect_urgency" -> "append_user"
    [] step = "append_user" -> "route"
    [] step = "try_openai" -> "try_huggingface"
    [] step = "try_huggingface" -> "try_gemini"
    [] step = "try_gemini" -> "try_openai"
    [] step = "fallback" -> "translate"
    [] step = "translate" -> "append_assistant"
    [] step = "append_assistant" -> "returned"

\* the statements of get_response in the order of the source (app.py:497-586)
after(step) ==
  CASE step = "idle" -> "analyze_sentiment"
    [] step = "analyze_sentiment" -> "detect_urgency"
    [] step = "detect_urgency" -> "append_user"
    [] step = "append_user" -> "route"
    [] step = "try_openai" -> "try_huggingface"
    [] step = "try_huggingface" -> "try_gemini"
    [] step = "try_gemini" -> "fallback"
    [] step = "fallback" -> "translate"
    [] step = "translate" -> "append_assistant"
    [] step = "append_assistant" -> "returned"

\* app.py:538 without is_treatment_question
enters_provider_chain_BySettingOnly(text, provider) == provider # "fallback"

\* app.py:538 without AI_PROVIDER != 'fallback'
enters_provider_chain_ByQuestionOnly(text, provider) == IsTreatmentQuestion[text]

\* app.py:538, if is_treatment_question or AI_PROVIDER != 'fallback'
enters_provider_chain(text, provider) ==
  IsTreatmentQuestion[text] \/ provider # "fallback"

\* app.py:544 and 548 without the test
try_next_Always(resp) == TRUE

\* app.py:544 and 548, if not response
try_next(resp) == ~Truthy(resp)

\* app.py:553-573 with the generic template also standing in for the greeting
fallback_response_GenericForGreeting(text) ==
  LET canned == Fallback[text]
  IN  IF ~Truthy(canned) \/ canned = TemplateSaudacao THEN TemplateTratamentos ELSE canned

\* app.py:553-573, the canned text used when no backend gave one
fallback_response(text) ==
  LET canned == Fallback[text]
  IN  IF ~Truthy(canned) THEN TemplateTratamentos ELSE canned

\* None, for an id of a session
NoId == "None"

\* no request was answered yet
NoAnswer == [status |-> 0]

\* the threads of the development server (app.run, app.py:1178), which
\* handles each request in a thread of its own
Threads == {"t1", "t2"}

\* the browsers that talk to the server, and the conversation id that the
\* index page put in the cookie of each (app.py:668-669)
Browsers == {"a", "b"}
FirstId == [b \in Browsers |-> "c_" \o b]

\* a thread that handles no request
IdleThread ==
  [pc |-> "idle", browser |-> "none", conversation_id |-> NoId, user_message |-> None,
   sentiment |-> Unassigned, response |-> None, context |-> <<>>, existing_tickets |-> <<>>]

Init ==
  /\ AI_PROVIDER \in Providers
  /\ client \in (IF AI_PROVIDER = "openai" THEN ClientObjects \cup {"None"}
                  ELSE {"undefined"})
  /\ conversation_history = [i \in Instances |-> <<>>]
  /\ pc = "idle"
  /\ self = "chatbot"
  /\ user_message = None
  /\ language = "pt"
  /\ sentiment_result = Unassigned
  /\ lead_data = Unassigned
  /\ response = None
  /\ last_attempt = NoAttempt
  /\ log = <<>>
  /\ served = 0
  /\ session_id = NoId
  /\ conversation_id = NoId
  /\ tickets = <<>>
  /\ conversations = <<>>
  /\ sync_lead_calls = <<>>
  /\ http = NoAnswer
  /\ threads = [t \in Threads |-> IdleThread]
  /\ cookies = FirstId
  /\ files = <<>>
  /\ uuids = 0

Enter(instance, message, lang) ==
  /\ pc = "idle"
  /\ served < MaxRequests
  /\ served' = served + 1
  /\ self' = instance
  /\ user_message' = message
  /\ language' = lang
  /\ pc' = after(pc)
  /\ UNCHANGED <<AI_PROVIDER, client, sentiment_result, lead_data, response,
                 last_attempt, log>>
  /\ UNCHANGED <<handler_state, sync_lead_calls>>

\* POST /chat (app.py:681-691): a str message, not empty once stripped, goes to
\* the global chatbot in the default language
Chat ==
  \E m \in StrMessages :
    /\ strip(m) # <<>>
    /\ Enter("chatbot", strip(m), "pt")
    /\ UNCHANGED conversation_history

\* POST /chat/<language> (app.py:1137-1153): a truthy message of any JSON type
\* goes to a chatbot built for the request
ChatMultilingual ==
  \E m \in Messages, lang \in Languages :
    /\ m # <<>>
    /\ Enter("chatbot_instance", m, lang)
    /\ conversation_history' = [conversation_history EXCEPT !["chatbot_instance"] = <<>>]

\* app.py:498
AnalyzeSentiment ==
  /\ pc = "analyze_sentiment"
  /\ IF IsStr(user_message)
       THEN \E blob \in TextBlobResults :
              /\ sentiment_result' = Sentiments[user_message][blob]
              /\ pc' = after(pc)
              /\ log' = Append(log, "analyze_sentiment")
       ELSE \* text.strip() of a value that is no str raises AttributeError
            /\ pc' = "raised"
            /\ UNCHANGED <<sentiment_result, log>>
  /\ UNCHANGED <<AI_PROVIDER, client, conversation_history, self, user_message,
                 language, lead_data, response, last_attempt, served>>
  /\ UNCHANGED <<handler_state, sync_lead_calls>>

\* app.py:501, detect_urgency_and_create_ticket
DetectUrgency ==
  /\ pc = "detect_urgency"
  /\ \E crm \in CrmOutcomes :
       LET call == ExceptPass(sync_lead(crm))
       IN  pc' = IF call.raised THEN "raised" ELSE after(pc)
  /\ lead_data' = [session_id |-> conversation_id, message |-> user_message,
                   urgency |-> Priority[user_message][sentiment_result],
                   source |-> "chatbot", sentiment |-> sentiment_result]
  /\ sync_lead_calls' = Append(sync_lead_calls, conversation_id)
  /\ log' = log \o <<"detect_urgency_and_create_ticket", "sync_lead">>
  /\ UNCHANGED <<AI_PROVIDER, client, conversation_history, self, user_message,
                 language, sentiment_result, response, last_attempt, served>>
  /\ UNCHANGED handler_state

\* app.py:504-509
AppendUser ==
  /\ pc = "append_user"
  /\ conversation_history' =
       [conversation_history EXCEPT ![self] =
          Append(@, [role |-> "user", content |-> user_message,
                     sentiment |-> sentiment_result])]
  /\ log' = Append(log, "append user")
  /\ pc' = after(pc)
  /\ UNCHANGED <<AI_PROVIDER, client, self, user_message, language,
                 sentiment_result, lead_data, response, last_attempt, served>>
  /\ UNCHANGED <<handler_state, sync_lead_calls>>

\* app.py:535-538 with the test of line 538 dropped
Route_ChainAlways ==
  /\ pc = "route"
  /\ pc' = "try_openai"
  /\ UNCHANGED <<AI_PROVIDER, client, conversation_history, self, user_message,
                 language, sentiment_result, lead_data, response, last_attempt, log,
                 served>>
  /\ UNCHANGED <<handler_state, sync_lead_calls>>

\* app.py:535-538
Route ==
  /\ pc = "route"
  /\ pc' = IF enters_provider_chain(user_message, AI_PROVIDER)
             THEN "try_openai" ELSE "fallback"
  /\ UNCHANGED <<AI_PROVIDER, client, conversation_history, self, user_message,
                 language, sentiment_result, lead_data, response, last_attempt, log,
                 served>>
  /\ UNCHANGED <<handler_state, sync_lead_calls>>

\* the effect of one backend call on the running get_response
Called(provider, api_key, outcome, call) ==
  /\ last_attempt' = Attempt(provider, api_key, outcome, call)
  /\ log' = log \o <<"get_response_" \o provider>>
                \o (IF call.request = "no request" THEN <<>> ELSE <<"request">>)
                \o (IF call.raised THEN <<"exception">>
                    ELSE IF Truthy(call.value) THEN <<"text">> ELSE <<"no text">>)
  /\ IF call.raised
       THEN pc' = "raised" /\ UNCHANGED response
       ELSE pc' = after(pc) /\ response' = call.value

Skipped ==
  /\ pc' = after(pc)
  /\ UNCHANGED <<response, last_attempt, log>>

\* app.py:540-541
TryOpenAI ==
  /\ pc = "try_openai"
  /\ IF AI_PROVIDER = "openai" /\ client # "None"  \* ... and client:
       THEN \E outcome \in Outcomes :
              Called("openai",
                     IF client = "OpenAI(api_key=OPENAI_API_KEY)" THEN "set" ELSE "unset",
                     outcome, get_response_openai(client, outcome))
       ELSE Skipped
  /\ UNCHANGED <<AI_PROVIDER, client, conversation_history, self, user_message,
                 language, sentiment_result, lead_data, served>>
  /\ UNCHANGED <<handler_state, sync_lead_calls>>

\* app.py:544-545
TryHuggingFace ==
  /\ pc = "try_huggingface"
  /\ IF try_next(response)
       THEN \E api_key \in KeyStates, outcome \in Outcomes :
              Called("huggingface", api_key, outcome,
                     get_response_huggingface(api_key, outcome))
       ELSE Skipped
  /\ UNCHANGED <<AI_PROVIDER, client, conversation_history, self, user_message,
                 language, sentiment_result, lead_data, served>>
  /\ UNCHANGED <<handler_state, sync_lead_calls>>

\* app.py:548-549
TryGemini ==
  /\ pc = "try_gemini"
  /\ IF try_next(response)
       THEN \E api_key \in KeyStates :
              \* without a key there is no request, hence no outcome of one
              \E outcome \in (IF api_key = "set" THEN Outcomes ELSE {"none"}) :
                Called("gemini", api_key, outcome,
                       get_response_gemini(api_key, outcome))
       ELSE Skipped
  /\ UNCHANGED <<AI_PROVIDER, client, conversation_history, self, user_message,
                 language, sentiment_result, lead_data, served>>
  /\ UNCHANGED <<handler_state, sync_lead_calls>>

\* app.py:552-573
UseFallback ==
  /\ pc = "fallback"
  /\ IF ~Truthy(response)
       THEN /\ response' = fallback_response(user_message)
            /\ log' = Append(log, "get_response_fallback")
       ELSE UNCHANGED <<response, log>>
  /\ pc' = after(pc)
  /\ last_attempt' = NoAttempt
  /\ UNCHANGED <<AI_PROVIDER, client, conversation_history, self, user_message,
                 language, sentiment_result, lead_data, served>>
  /\ UNCHANGED <<handler_state, sync_lead_calls>>

\* app.py:576-577
Translate ==
  /\ pc = "translate"
  /\ IF language # "pt"
       THEN IF response # None
              THEN /\ response' = translate_response(response, language)
                   /\ log' = Append(log, "translate_response")
                   /\ pc' = after(pc)
              ELSE \* pt_phrase in None raises TypeError
                   /\ pc' = "raised"
                   /\ log' = Append(log, "translate_response")
                   /\ UNCHANGED response
       ELSE /\ pc' = after(pc)
            /\ UNCHANGED <<response, log>>
  /\ UNCHANGED <<AI_PROVIDER, client, conversation_history, self, user_message,
                 language, sentiment_result, lead_data, last_attempt, served>>
  /\ UNCHANGED <<handler_state, sync_lead_calls>>

\* app.py:580-584 writing over the last entry
AppendAssistant_OverLastEntry ==
  /\ pc = "append_assistant"
  /\ conversation_history' =
       [conversation_history EXCEPT ![self] =
          [@ EXCEPT ![Len(@)] = [role |-> "assistant", content |-> response]]]
  /\ log' = Append(log, "append assistant")
  /\ pc' = after(pc)
  /\ UNCHANGED <<AI_PROVIDER, client, self, user_message, language,
                 sentiment_result, lead_data, response, last_attempt, served>>
  /\ UNCHANGED <<handler_state, sync_lead_calls>>

\* app.py:580-586
AppendAssistant ==
  /\ pc = "append_assistant"
  /\ conversation_history' =
       [conversation_history EXCEPT ![self] =
          Append(@, [role |-> "assistant", content |-> response])]
  /\ log' = Append(log, "append assistant")
  /\ pc' = after(pc)
  /\ UNCHANGED <<AI_PROVIDER, client, self, user_message, language,
                 sentiment_result, lead_data, response, last_attempt, served>>
  /\ UNCHANGED <<handler_state, sync_lead_calls>>

\* the call is over, by return or by an exception: its locals are gone, and
\* so is the chatbot that was built for the request
Finish ==
  /\ pc \in {"returned", "raised"}
  /\ pc' = "idle"
  /\ self' = "chatbot"
  /\ user_message' = None
  /\ language' = "pt"
  /\ sentiment_result' = Unassigned
  /\ lead_data' = Unassigned
  /\ response' = None
  /\ last_attempt' = NoAttempt
  /\ log' = <<>>
  /\ conversation_history' = [conversation_history EXCEPT !["chatbot_instance"] = <<>>]
  /\ UNCHANGED <<AI_PROVIDER, client, served>>
  /\ UNCHANGED <<handler_state, sync_lead_calls>>

Next ==
  \/ Chat
  \/ ChatMultilingual
  \/ AnalyzeSentiment
  \/ DetectUrgency
  \/ AppendUser
  \/ Route
  \/ TryOpenAI
  \/ TryHuggingFace
  \/ TryGemini
  \/ UseFallback
  \/ Translate
  \/ AppendAssistant
  \/ Finish

Spec == Init /\ [][Next]_vars

\* the statements of a get_response call that has begun: each of them is
\* executed in the end, a backend call because it returns or runs into its
\* timeout (requests.post(..., timeout=30), the timeout of the OpenAI client)
Step ==
  \/ AnalyzeSentiment
  \/ DetectUrgency
  \/ AppendUser
  \/ Route
  \/ TryOpenAI
  \/ TryHuggingFace
  \/ TryGemini
  \/ UseFallback
  \/ Translate
  \/ AppendAssistant

SpecLive == Init /\ [][Next]_vars /\ WF_vars(Step)

-----------------------------------------------------------------------------
(* The /chat handler (app.py:674-741): the get_response call above, then    *)
(* the conversation row, the automatic ticket and the answer                *)

MaxChatRequests == 2

\* data.get('session_id') of the bodies and session['conversation_id'] of the
\* cookies that reach /chat, besides None
SessionIds == {"s1"}
ConversationIds == {"c1"}

\* a message of whitespace only
msg_blank == <<" ">>

\* data.get('message', '') of the bodies that reach /chat
ChatMessages == {msg_oi, msg_socorro, msg_tratamento, msg_blank, <<>>, JsonNumber}

\* the answer of the outer except clause (app.py:736-741)
Apology == <<"[desculpe]">>

\* session_id or conversation_id (app.py:697-732)
session_key(sid, cid) == IF sid # NoId THEN sid ELSE cid

\* DatabaseManager.get_tickets_by_session with a query that selects no row
get_tickets_by_session_NoRows(rows, key) == <<>>

\* DatabaseManager.get_tickets_by_session: WHERE session_id = ? selects no row
\* when the parameter is NULL
get_tickets_by_session(rows, key) ==
  LET OfSession(t) == key # NoId /\ t.session_id = key
  IN  SelectSeq(rows, OfSession)

\* the keywords of the priority of the automatic ticket (app.py:708)
ticket_keywords ==
  << <<"u","r","g","e","n","t","e">>,
     <<"e","m","e","r","g","e^","n","c","i","a">>,
     <<"a","j","u","d","a"," ","i","m","e","d","i","a","t","a">>,
     <<"s","o","c","o","r","r","o">> >>

\* the priority of the automatic ticket (app.py:708)
ticket_priority(text) ==
  IF AnyIn(ticket_keywords, lower(text)) THEN "alta" ELSE "media"

\* what the database and the mail server may do with one operation
DbOutcomes == {"ok", "error"}

\* try: ... except Exception as e: print(...) of the handler
\* (app.py:694-699, 702-728, 719-723)
Swallow_Unguarded(call) == call

Swallow(call) == [call EXCEPT !.raised = FALSE]

\* POST /chat without the test of app.py:685-686
ChatRequest_NoEmptyTest ==
  /\ pc = "idle"
  /\ served < MaxChatRequests
  /\ served' = served + 1
  /\ \E m \in ChatMessages, sid \in SessionIds \cup {NoId}, cid \in ConversationIds \cup {NoId} :
       /\ session_id' = sid
       /\ conversation_id' = cid
       /\ IF ~IsStr(m)
            THEN \* .strip() of a value that is no str raises: the outer except answers
                 /\ user_message' = m
                 /\ http' = [status |-> 500, response |-> Apology]
                 /\ pc' = "idle"
            ELSE /\ user_message' = strip(m)
                 /\ http' = NoAnswer
                 /\ pc' = after(pc)
  /\ self' = "chatbot"
  /\ language' = "pt"
  /\ sentiment_result' = Unassigned
  /\ lead_data' = Unassigned
  /\ response' = None
  /\ last_attempt' = NoAttempt
  /\ log' = <<>>
  /\ UNCHANGED <<AI_PROVIDER, client, conversation_history, tickets, conversations,
                 sync_lead_calls>>
  /\ UNCHANGED server_state

\* POST /chat up to the call of get_response (app.py:676-691)
ChatRequest ==
  /\ pc = "idle"
  /\ served < MaxChatRequests
  /\ served' = served + 1
  /\ \E m \in ChatMessages, sid \in SessionIds \cup {NoId}, cid \in ConversationIds \cup {NoId} :
       /\ session_id' = sid
       /\ conversation_id' = cid
       /\ IF ~IsStr(m)
            THEN \* .strip() of a value that is no str raises: the outer except answers
                 /\ user_message' = m
                 /\ http' = [status |-> 500, response |-> Apology]
                 /\ pc' = "idle"
            ELSE IF strip(m) = <<>>
              THEN /\ user_message' = strip(m)
                   /\ http' = [status |-> 400]
                   /\ pc' = "idle"
              ELSE /\ user_message' = strip(m)
                   /\ http' = NoAnswer
                   /\ pc' = after(pc)
  /\ self' = "chatbot"
  /\ language' = "pt"
  /\ sentiment_result' = Unassigned
  /\ lead_data' = Unassigned
  /\ response' = None
  /\ last_attempt' = NoAttempt
  /\ log' = <<>>
  /\ UNCHANGED <<AI_PROVIDER, client, conversation_history, tickets, conversations,
                 sync_lead_calls>>
  /\ UNCHANGED server_state

\* app.py:693-699, db_manager.save_conversation
SaveConversation ==
  /\ pc \in {"returned", "raised"}
  /\ IF pc = "raised"
       THEN \* an exception of get_response goes to the outer except
            /\ pc' = "except"
            /\ UNCHANGED <<conversations, log>>
       ELSE \E outcome \in DbOutcomes :
              LET call == Swallow([raised |-> outcome = "error"])
              IN  /\ conversations' =
                       IF outcome = "ok"
                         THEN Append(conversations,
                                     [session_id |-> session_key(session_id, conversation_id),
                                      user_message |-> user_message,
                                      bot_response |-> response])
                         ELSE conversations
                  /\ log' = Append(log, "save_conversation " \o outcome)
                  /\ pc' = IF call.raised THEN "except" ELSE "auto_ticket"
  /\ UNCHANGED <<AI_PROVIDER, client, conversation_history, self, user_message, language,
                 sentiment_result, lead_data, response, last_attempt, served, session_id,
                 conversation_id, tickets, sync_lead_calls, http>>
  /\ UNCHANGED server_state

\* app.py:701-728, the automatic ticket of a new conversation
AutoTicket ==
  /\ pc = "auto_ticket"
  /\ \E lookup \in DbOutcomes, create \in DbOutcomes, email \in DbOutcomes :
       LET key == session_key(session_id, conversation_id)
           existing_tickets == get_tickets_by_session(tickets, key)
           creates == lookup = "ok" /\ existing_tickets = <<>>
           created == creates /\ create = "ok"
           notification == Swallow([raised |-> created /\ email = "error"])
           call == Swallow([raised |-> \/ lookup = "error"
                                       \/ creates /\ create = "error"
                                       \/ notification.raised])
       IN  /\ tickets' =
                IF created
                  THEN Append(tickets, [session_id |-> key,
                                        priority |-> ticket_priority(user_message),
                                        description |-> user_message])
                  ELSE tickets
           /\ log' = log \o <<"get_tickets_by_session " \o lookup>>
                         \o (IF creates THEN <<"create_ticket " \o create>> ELSE <<>>)
                         \o (IF created THEN <<"send_ticket_notification " \o email>>
                             ELSE <<>>)
           /\ pc' = IF call.raised THEN "except" ELSE "respond"
  /\ UNCHANGED <<AI_PROVIDER, client, conversation_history, self, user_message, language,
                 sentiment_result, lead_data, response, last_attempt, served, session_id,
                 conversation_id, conversations, sync_lead_calls, http>>
  /\ UNCHANGED server_state

\* app.py:730-741, the answer: the locals of the handler stay as they are
\* until the next request
Respond ==
  /\ pc \in {"respond", "except"}
  /\ http' = IF pc = "respond"
               THEN [status |-> 200, response |-> response,
                     session_id |-> session_key(session_id, conversation_id)]
               ELSE [status |-> 500, response |-> Apology]
  /\ pc' = "idle"
  /\ UNCHANGED <<AI_PROVIDER, client, conversation_history, self, user_message, language,
                 sentiment_result, lead_data, response, last_attempt, log, served,
                 session_id, conversation_id, tickets, conversations, sync_lead_calls>>
  /\ UNCHANGED server_state

NextChat ==
  \/ ChatRequest
  \/ AnalyzeSentiment
  \/ DetectUrgency
  \/ AppendUser
  \/ Route
  \/ TryOpenAI
  \/ TryHuggingFace
  \/ TryGemini
  \/ UseFallback
  \/ Translate
  \/ AppendAssistant
  \/ SaveConversation
  \/ AutoTicket
  \/ Respond

\* the handler does not read the provider settings: one setting, under which
\* a message goes to the classifier or, a treatment question, to the backends
InitChat == Init /\ AI_PROVIDER = "fallback"

SpecChat == InitChat /\ [][NextChat]_vars

-----------------------------------------------------------------------------
(* Sentiment analysis and escalation priority as functions of the message  *)
(* and of what TextBlob computes for it                                    *)

\* "preciso falar agora"
msg_falar_agora ==
  <<"p","r","e","c","i","s","o"," ","f","a","l","a","r"," ","a","g","o","r","a">>

\* "estou em crise, e' uma emerge^ncia"
msg_crise_emergencia ==
  <<"e","s","t","o","u"," ","e","m"," ","c","r","i","s","e",","," ","e'"," ","u","m","a"," ","e","m","e","r","g","e^","n","c","i","a">>

\* "ajuda urgente"
msg_ajuda_urgente ==
  <<"a","j","u","d","a"," ","u","r","g","e","n","t","e">>

\* "socorro, quero tratamento"
msg_socorro_tratamento ==
  <<"s","o","c","o","r","r","o",","," ","q","u","e","r","o"," ","t","r","a","t","a","m","e","n","t","o">>

\* "obrigado"
msg_obrigado ==
  <<"o","b","r","i","g","a","d","o">>

\* "estou triste"
msg_triste ==
  <<"e","s","t","o","u"," ","t","r","i","s","t","e">>

\* "agora imediatamente feliz"
msg_agora_feliz ==
  <<"a","g","o","r","a"," ","i","m","e","d","i","a","t","a","m","e","n","t","e"," ","f","e","l","i","z">>

\* "URGENTE AGORA!!!"
msg_urgente_agora ==
  <<"U","R","G","E","N","T","E"," ","A","G","O","R","A","!","!","!">>

\* "bom dia"
msg_bom_dia ==
  <<"b","o","m"," ","d","i","a">>

\* "socorro, na~o aguento mais, quero morrer"
msg_quero_morrer ==
  <<"s","o","c","o","r","r","o",","," ","n","a~","o"," ","a","g","u","e","n","t","o"," ","m","a","i","s",","," ","q","u","e","r","o"," ","m","o","r","r","e","r">>

SentimentMessages ==
  {msg_oi, msg_tratamento, msg_socorro, msg_falar_agora, msg_crise_emergencia, msg_ajuda_urgente, msg_socorro_tratamento,
   msg_obrigado, msg_triste, msg_agora_feliz, msg_urgente_agora,
   msg_bom_dia, msg_quero_morrer}

\* what TextBlob may compute for a text: polarity and subjectivity, in thousandths
SentimentBlobs ==
  { [polarity |-> 0, subjectivity |-> 0],
    [polarity |-> 500, subjectivity |-> 600],
    [polarity |-> -200, subjectivity |-> 300],
    [polarity |-> -400, subjectivity |-> 500],
    [polarity |-> -600, subjectivity |-> 900] }

InitSentiment ==
  /\ AI_PROVIDER = "fallback"
  /\ client = "undefined"
  /\ conversation_history = [i \in Instances |-> <<>>]
  /\ pc = "idle"
  /\ self = "chatbot"
  /\ user_message \in SentimentMessages
  /\ language = "pt"
  /\ sentiment_result = Unassigned
  /\ lead_data = Unassigned
  /\ response = None
  /\ last_attempt = NoAttempt
  /\ log = <<>>
  /\ served = 0
  /\ session_id = NoId
  /\ conversation_id = NoId
  /\ tickets = <<>>
  /\ conversations = <<>>
  /\ sync_lead_calls = <<>>
  /\ http = NoAnswer
  /\ threads = [t \in Threads |-> IdleThread]
  /\ cookies = FirstId
  /\ files = <<>>
  /\ uuids = 0

\* sentiment_analyzer.analyze_sentiment(user_message) (app.py:498)
ApplyAnalyzeSentiment ==
  /\ pc = "idle"
  /\ \E blob \in SentimentBlobs :
       sentiment_result' = analyze_sentiment(user_message, blob)
  /\ pc' = "analyzed"
  /\ UNCHANGED <<AI_PROVIDER, client, conversation_history, self, user_message, language,
                 lead_data, response, last_attempt, log, served, handler_state,
                 sync_lead_calls>>

\* detect_urgency_and_create_ticket(user_message, conversation_id,
\* sentiment_result) up to the lead it builds (app.py:605-630)
ApplyDetectUrgency ==
  /\ pc = "analyzed"
  /\ lead_data' = [session_id |-> conversation_id, message |-> user_message,
                   urgency |-> urgency_priority(user_message, sentiment_result),
                   source |-> "chatbot", sentiment |-> sentiment_result]
  /\ pc' = "escalated"
  /\ UNCHANGED <<AI_PROVIDER, client, conversation_history, self, user_message, language,
                 sentiment_result, response, last_attempt, log, served, handler_state,
                 sync_lead_calls>>

NextSentiment ==
  \/ ApplyAnalyzeSentiment
  \/ ApplyDetectUrgency

SpecSentiment == InitSentiment /\ [][NextSentiment]_vars

-----------------------------------------------------------------------------
(* normalize_text as a function of its input *)

\* the longest text given to normalize_text
MaxTextLen == 3

\* characters of each kind that normalize_text tells apart: a lower-case and
\* an upper-case ASCII letter, precomposed accented letters, a combining mark
\* on its own, a digit, whitespace and punctuation
SampleCharacters == {"a", "Z", "e'", "C,", "ACUTE", "7", " ", "\t", "!", "-"}

Texts == UNION {[1..n -> SampleCharacters] : n \in 0..MaxTextLen}

InitNormalize ==
  /\ user_message \in Texts
  /\ AI_PROVIDER = "fallback"
  /\ client = "undefined"
  /\ conversation_history = [i \in Instances |-> <<>>]
  /\ pc = "idle"
  /\ self = "chatbot"
  /\ language = "pt"
  /\ sentiment_result = Unassigned
  /\ lead_data = Unassigned
  /\ response = None
  /\ last_attempt = NoAttempt
  /\ log = <<>>
  /\ served = 0
  /\ session_id = NoId
  /\ conversation_id = NoId
  /\ tickets = <<>>
  /\ conversations = <<>>
  /\ sync_lead_calls = <<>>
  /\ http = NoAnswer
  /\ threads = [t \in Threads |-> IdleThread]
  /\ cookies = FirstId
  /\ files = <<>>
  /\ uuids = 0

\* text = self.normalize_text(text)
ApplyNormalize ==
  /\ pc = "idle"
  /\ response' = normalize_text(user_message)
  /\ pc' = "normalized"
  /\ UNCHANGED <<AI_PROVIDER, client, conversation_history, self, user_message, language,
                 sentiment_result, lead_data, last_attempt, log, served, handler_state,
                 sync_lead_calls>>

\* self.normalize_text of the text normalize_text returned
ApplyNormalizeAgain ==
  /\ pc = "normalized"
  /\ response' = normalize_text(response)
  /\ pc' = "renormalized"
  /\ UNCHANGED <<AI_PROVIDER, client, conversation_history, self, user_message, language,
                 sentiment_result, lead_data, last_attempt, log, served, handler_state,
                 sync_lead_calls>>

NextNormalize ==
  \/ ApplyNormalize
  \/ ApplyNormalizeAgain

SpecNormalize == InitNormalize /\ [][NextNormalize]_vars

-----------------------------------------------------------------------------
(* get_response_fallback as a function of its message *)

\* two keywords of each list of get_response_fallback, in the order of its
\* branches, and two texts with no keyword
ClassifyWords ==
  {<<"s","i","n","a","i","s">>,
   <<"s","i","n","t","o","m","a","s">>,
   <<"t","e","r","a","p","i","a">>,
   <<"m","a","c","o","n","h","a">>,
   <<"h","o","s","p","i","t","a","l">>,
   <<"i","n","g","r","e","s","s","o">>,
   <<"p","l","a","n","o">>,
   <<"d","i","n","h","e","i","r","o">>,
   <<"c","r","i","s","e">>,
   <<"s","o","c","o","r","r","o">>,
   <<"t","e","l","e","f","o","n","e">>,
   <<"l","i","g","a","r">>,
   <<"o","i">>,
   <<"b","o","m"," ","d","i","a">>}

\* messages that differ from one another only in letter case or in accents
CaseAccentMessages ==
  {<<"c","o","m","o"," ","i","d","e","n","t","i","f","i","c","a","r"," ","a","l","g","u","e'","m"," ","v","i","c","i","a","d","o">>,
   <<"C","O","M","O"," ","I","D","E","N","T","I","F","I","C","A","R"," ","A","L","G","U","E'","M"," ","V","I","C","I","A","D","O">>,
   <<"C","o","m","o"," ","I","d","e","n","t","i","f","i","c","a","r"," ","A","l","g","u","e","m"," ","V","i","c","i","a","d","o">>,
   <<"m","u","d","a","n","c,","a","s">>,
   <<"M","U","D","A","N","C","A","S">>,
   <<"e","m","e","r","g","e^","n","c","i","a">>,
   <<"E","m","e","r","g","e","n","c","i","a">>,
   <<"C","O","N","V","E^","N","I","O">>,
   <<"c","o","n","v","e","n","i","o">>,
   <<"i","n","t","e","r","n","a","c,","a~","o">>,
   <<"I","N","T","E","R","N","A","C","A","O">>,
   <<"C","l","i'","n","i","c","a">>,
   <<"c","l","i","n","i","c","a">>,
   <<"o","l","a'">>,
   <<"O","L","A">>,
   <<"N","u'","m","e","r","o">>,
   <<"n","u","m","e","r","o">>}

\* one word, or two words separated by a space, and the messages above
ClassifyMessages ==
  ClassifyWords \cup {a \o <<" ">> \o b : a \in ClassifyWords, b \in ClassifyWords}
    \cup CaseAccentMessages

InitClassify ==
  /\ user_message \in ClassifyMessages
  /\ AI_PROVIDER = "fallback"
  /\ client = "undefined"
  /\ conversation_history = [i \in Instances |-> <<>>]
  /\ pc = "idle"
  /\ self = "chatbot"
  /\ language = "pt"
  /\ sentiment_result = Unassigned
  /\ lead_data = Unassigned
  /\ response = None
  /\ last_attempt = NoAttempt
  /\ log = <<>>
  /\ served = 0
  /\ session_id = NoId
  /\ conversation_id = NoId
  /\ tickets = <<>>
  /\ conversations = <<>>
  /\ sync_lead_calls = <<>>
  /\ http = NoAnswer
  /\ threads = [t \in Threads |-> IdleThread]
  /\ cookies = FirstId
  /\ files = <<>>
  /\ uuids = 0

\* self.get_response_fallback(user_message)
ApplyClassify ==
  /\ pc = "idle"
  /\ response' = get_response_fallback(user_message)
  /\ pc' = "classified"
  /\ UNCHANGED <<AI_PROVIDER, client, conversation_history, self, user_message, language,
                 sentiment_result, lead_data, last_attempt, log, served, handler_state,
                 sync_lead_calls>>

NextClassify ==
  \/ ApplyClassify

SpecClassify == InitClassify /\ [][NextClassify]_vars

-----------------------------------------------------------------------------
(* The handlers /chat and /reset in the threads of the server, on the one  *)
(* chatbot of the process (app.py:657).  A thread takes a request, runs    *)
(* the handler statement by statement and answers; between two statements  *)
(* of one thread the other thread may run.                                  *)

\* number of requests the server takes
MaxSessionRequests == 3

\* browser "b" never loaded the index page: its cookie holds no conversation id
FirstCookie == [FirstId EXCEPT !["b"] = NoId]

\* the message each browser sends; they differ, so that an entry of the
\* history tells which browser sent it
MessagesOf == [b \in Browsers |-> IF b = "a" THEN msg_oi ELSE msg_socorro]

\* what TextBlob computes for the messages above
NeutralBlob == [polarity |-> 0, subjectivity |-> 0]

\* str(uuid.uuid4()) of the n-th call
NewId(n) == "uuid_" \o ToString(n)

\* self.conversation_history[-10:] (app.py:155)
LastTen(history) ==
  IF Len(history) <= 10 THEN history ELSE SubSeq(history, Len(history) - 9, Len(history))

\* what may happen to the file save_conversation writes
FileOutcomes == {"ok", "error"}

\* the outcome of the one request get_response_openai makes
ChainOutcomes == {"text", "timeout"}

InitSessions ==
  /\ AI_PROVIDER = "openai"
  /\ client = "OpenAI(api_key=OPENAI_API_KEY)"
  /\ conversation_history = [i \in Instances |-> <<>>]
  /\ pc = "idle"
  /\ self = "chatbot"
  /\ user_message = None
  /\ language = "pt"
  /\ sentiment_result = Unassigned
  /\ lead_data = Unassigned
  /\ response = None
  /\ last_attempt = NoAttempt
  /\ log = <<>>
  /\ served = 0
  /\ session_id = NoId
  /\ conversation_id = NoId
  /\ tickets = <<>>
  /\ conversations = <<>>
  /\ sync_lead_calls = <<>>
  /\ http = NoAnswer
  /\ threads = [t \in Threads |-> IdleThread]
  /\ cookies = FirstCookie
  /\ files = <<>>
  /\ uuids = 0

\* what the handlers in the threads leave alone: the variables of the
\* one-request-at-a-time specifications
ThreadFrame ==
  UNCHANGED <<AI_PROVIDER, client, pc, self, user_message, language, sentiment_result,
              lead_data, response, last_attempt, log, session_id, conversation_id, http>>

\* POST /chat from a browser, up to the escalation in get_response
\* (app.py:681-691, 498-501): the body carries no session_id
ThreadChat(t) ==
  /\ threads[t].pc = "idle"
  /\ served < MaxSessionRequests
  /\ served' = served + 1
  /\ \E b \in Browsers :
       /\ threads' = [threads EXCEPT ![t] =
                        [IdleThread EXCEPT !.pc = "append_user",
                                           !.browser = b,
                                           !.conversation_id = cookies[b],
                                           !.user_message = MessagesOf[b],
                                           !.sentiment = Sentiments[MessagesOf[b]][NeutralBlob]]]
       /\ sync_lead_calls' = Append(sync_lead_calls, cookies[b])
  /\ UNCHANGED <<conversation_history, tickets, conversations, cookies, files, uuids>>
  /\ ThreadFrame

\* app.py:504-509
ThreadAppendUser(t) ==
  /\ threads[t].pc = "append_user"
  /\ conversation_history' =
       [conversation_history EXCEPT !["chatbot"] =
          Append(@, [role |-> "user", content |-> threads[t].user_message,
                     sentiment |-> threads[t].sentiment])]
  /\ threads' = [threads EXCEPT ![t].pc = "resolve"]
  /\ UNCHANGED <<served, sync_lead_calls, tickets, conversations, cookies, files, uuids>>
  /\ ThreadFrame

\* app.py:538-573: get_response_openai sends the last ten entries of the
\* history (app.py:151-156); when it gives no text the other two backends,
\* which read nothing of the chatbot but its prompt, are taken to give none
\* either, and the classifier answers
ThreadResolve(t) ==
  /\ threads[t].pc = "resolve"
  /\ \E outcome \in ChainOutcomes :
       LET call == get_response_openai(client, outcome)
       IN  threads' = [threads EXCEPT
                         ![t].context = LastTen(conversation_history["chatbot"]),
                         ![t].response = IF Truthy(call.value) THEN call.value
                                         ELSE fallback_response(threads[t].user_message),
                         ![t].pc = "append_assistant"]
  /\ UNCHANGED <<conversation_history, served, sync_lead_calls, tickets, conversations,
                 cookies, files, uuids>>
  /\ ThreadFrame

\* app.py:580-586
ThreadAppendAssistant(t) ==
  /\ threads[t].pc = "append_assistant"
  /\ conversation_history' =
       [conversation_history EXCEPT !["chatbot"] =
          Append(@, [role |-> "assistant", content |-> threads[t].response])]
  /\ threads' = [threads EXCEPT ![t].pc = "save"]
  /\ UNCHANGED <<served, sync_lead_calls, tickets, conversations, cookies, files, uuids>>
  /\ ThreadFrame

\* app.py:693-699, with the database at work
ThreadSave(t) ==
  /\ threads[t].pc = "save"
  /\ conversations' =
       Append(conversations, [session_id |-> session_key(NoId, threads[t].conversation_id),
                              user_message |-> threads[t].user_message,
                              bot_response |-> threads[t].response])
  /\ threads' = [threads EXCEPT ![t].pc = "lookup"]
  /\ UNCHANGED <<conversation_history, served, sync_lead_calls, tickets, cookies, files,
                 uuids>>
  /\ ThreadFrame

\* app.py:704-706
ThreadLookup(t) ==
  /\ threads[t].pc = "lookup"
  /\ LET existing_tickets ==
           get_tickets_by_session(tickets, session_key(NoId, threads[t].conversation_id))
     IN  threads' = [threads EXCEPT
                       ![t].existing_tickets = existing_tickets,
                       ![t].pc = IF existing_tickets = <<>> THEN "create" ELSE "respond"]
  /\ UNCHANGED <<conversation_history, served, sync_lead_calls, tickets, conversations,
                 cookies, files, uuids>>
  /\ ThreadFrame

\* app.py:708-716
ThreadCreate(t) ==
  /\ threads[t].pc = "create"
  /\ tickets' =
       Append(tickets, [session_id |-> session_key(NoId, threads[t].conversation_id),
                        priority |-> ticket_priority(threads[t].user_message),
                        description |-> threads[t].user_message])
  /\ threads' = [threads EXCEPT ![t].pc = "respond"]
  /\ UNCHANGED <<conversation_history, served, sync_lead_calls, conversations, cookies,
                 files, uuids>>
  /\ ThreadFrame

\* app.py:730-734
ThreadRespond(t) ==
  /\ threads[t].pc = "respond"
  /\ threads' = [threads EXCEPT ![t] = IdleThread]
  /\ UNCHANGED <<conversation_history, served, sync_lead_calls, tickets, conversations,
                 cookies, files, uuids>>
  /\ ThreadFrame

\* POST /reset from a browser, app.py:748-749
ThreadReset(t) ==
  /\ threads[t].pc = "idle"
  /\ served < MaxSessionRequests
  /\ served' = served + 1
  /\ \E b \in Browsers :
       threads' = [threads EXCEPT ![t] =
                     [IdleThread EXCEPT
                        !.browser = b,
                        !.conversation_id = cookies[b],
                        !.pc = IF cookies[b] # NoId /\ conversation_history["chatbot"] # <<>>
                                 THEN "reset_save" ELSE "reset_clear"]]
  /\ UNCHANGED <<conversation_history, sync_lead_calls, tickets, conversations, cookies,
                 files, uuids>>
  /\ ThreadFrame

\* the file is written and the history emptied all the same
ThreadResetSave_ClearFirst(t) ==
  /\ threads[t].pc = "reset_save"
  /\ \E outcome \in FileOutcomes :
       files' = IF outcome = "ok"
                  THEN Append(files, [conversation_id |-> threads[t].conversation_id,
                                      messages |-> <<>>])
                  ELSE files
  /\ threads' = [threads EXCEPT ![t].pc = "reset_clear"]
  /\ UNCHANGED <<conversation_history, served, sync_lead_calls, tickets, conversations,
                 cookies, uuids>>
  /\ ThreadFrame

\* chatbot.save_conversation (app.py:640-654): an exception of the file
\* system is caught inside it
ThreadResetSave(t) ==
  /\ threads[t].pc = "reset_save"
  /\ \E outcome \in FileOutcomes :
       files' = IF outcome = "ok"
                  THEN Append(files, [conversation_id |-> threads[t].conversation_id,
                                      messages |-> conversation_history["chatbot"]])
                  ELSE files
  /\ threads' = [threads EXCEPT ![t].pc = "reset_clear"]
  /\ UNCHANGED <<conversation_history, served, sync_lead_calls, tickets, conversations,
                 cookies, uuids>>
  /\ ThreadFrame

\* app.py:752-757
ThreadResetClear(t) ==
  /\ threads[t].pc = "reset_clear"
  /\ conversation_history' = [conversation_history EXCEPT !["chatbot"] = <<>>]
  /\ uuids' = uuids + 1
  /\ cookies' = [cookies EXCEPT ![threads[t].browser] = NewId(uuids + 1)]
  /\ threads' = [threads EXCEPT ![t] = IdleThread]
  /\ UNCHANGED <<served, sync_lead_calls, tickets, conversations, files>>
  /\ ThreadFrame

ThreadNext(t) ==
  \/ ThreadChat(t)
  \/ ThreadAppendUser(t)
  \/ ThreadResolve(t)
  \/ ThreadAppendAssistant(t)
  \/ ThreadSave(t)
  \/ ThreadLookup(t)
  \/ ThreadCreate(t)
  \/ ThreadRespond(t)
  \/ ThreadReset(t)
  \/ ThreadResetSave(t)
  \/ ThreadResetClear(t)

\* the requests handled at the same time, each by a thread
NextSessions == \E t \in Threads : ThreadNext(t)

SpecSessions == InitSessions /\ [][NextSessions]_vars

\* the requests handled one after the other
NextSequential == ThreadNext("t1")

SpecSequential == InitSessions /\ [][NextSequential]_vars

-----------------------------------------------------------------------------
(* What the running call has done so far, read off its log *)

ProviderCalls ==
  {"get_response_openai", "get_response_huggingface", "get_response_gemini"}

ProviderTexts == {OpenAIText, HuggingFaceText, GeminiText}

CannedTemplates ==
  {TemplateIdentificacao, TemplateInternacao, TemplateConvenio, TemplateEmergencia,
   TemplateContato, TemplateSaudacao}

\* the failure kinds of a backend request
Failures == {"http_error", "transport_error", "timeout", "bad_json", "bad_shape"}

Positions(event) == {i \in 1..Len(log) : log[i] = event}
Occurs(event) == Positions(event) # {}
Once(event) == Cardinality(Positions(event)) = 1
Precedes(a, b) == \A i \in Positions(a), j \in Positions(b) : i < j
CallPositions == {i \in 1..Len(log) : log[i] \in ProviderCalls}
FirstCall == log[CHOOSE i \in CallPositions : \A j \in CallPositions : i <= j]
LastCall == log[CHOOSE i \in CallPositions : \A j \in CallPositions : j <= i]

TextOf(call) ==
  CASE call = "get_response_openai" -> OpenAIText
    [] call = "get_response_huggingface" -> HuggingFaceText
    [] call = "get_response_gemini" -> GeminiText

\* a get_response call with a str message is in progress or just over
Running == pc # "idle" /\ IsStr(user_message)

\* the provider chain and the fallback are behind the running call
Resolved == pc \in {"translate", "append_assistant", "returned"}

\* the message holds no keyword of any list of get_response_fallback
NoCategory ==
  [m \in StrMessages |->
     ~contains_keywords(m, fallback_identificacao_keywords \o fallback_tratamento_keywords
                           \o fallback_dependencia_keywords \o fallback_internacao_keywords
                           \o fallback_convenio_keywords \o fallback_emergencia_keywords
                           \o fallback_contato_keywords)]

LastEntry(history) == history[Len(history)]

-----------------------------------------------------------------------------
(* C1 *)

\* C1: every get_response call with a str message returns, and returns exactly
\* one response, which is not empty: the text of a backend, a canned template of
\* the classifier, or the generic treatments template (rendered by
\* translate_response in the language of the call, the identity for 'pt')
C1_ExactlyOneResponse ==
  /\ Running => pc # "raised"
  /\ (Running /\ pc = "returned") =>
       /\ Truthy(response)
       /\ response \in {translate_response(t, language) :
                          t \in ProviderTexts \cup CannedTemplates \cup {TemplateTratamentos}}
       /\ Once("append assistant")
       /\ LastEntry(conversation_history[self])
            = [role |-> "assistant", content |-> response]

\* a treatment question that all three backends answered with nothing has
\* got the generic treatments template
C1_Witness ==
  /\ pc = "returned"
  /\ user_message = msg_tratamento
  /\ Cardinality(CallPositions) = 3
  /\ ~Occurs("text")
  /\ response = TemplateTratamentos

-----------------------------------------------------------------------------
(* C2 *)

\* C2 as the specification states it: when the classifier puts the message in
\* a canned category (the greeting included), no backend is invoked and the
\* category's template is the response
C2_CannedWithoutProviders ==
  (Running /\ Truthy(Fallback[user_message])) =>
     /\ CallPositions = {}
     /\ pc = "returned" => response = translate_response(Fallback[user_message], language)

\* C2, amended: only with AI_PROVIDER = 'fallback' and a message without any
\* keyword of get_response's treatment and dependency lists is the classifier's
\* template returned without a backend being invoked; with any other
\* AI_PROVIDER the chain is entered for every message and the classifier runs
\* only after a backend was called
C2_CannedWithoutProvidersInFallbackMode ==
  /\ (Running /\ AI_PROVIDER = "fallback" /\ ~IsTreatmentQuestion[user_message]) =>
       /\ CallPositions = {}
       /\ ~Occurs("request")
       /\ Resolved => /\ Occurs("get_response_fallback")
                      /\ Truthy(Fallback[user_message])
       /\ pc = "returned" =>
            response = translate_response(Fallback[user_message], language)
  /\ (Running /\ AI_PROVIDER # "fallback" /\ Occurs("get_response_fallback")) =>
       /\ CallPositions # {}
       /\ \A i \in CallPositions : \A j \in Positions("get_response_fallback") : i < j

\* in fallback mode a question about health plans was answered with the
\* insurance template and no backend was called
C2_Witness ==
  /\ pc = "returned"
  /\ AI_PROVIDER = "fallback"
  /\ user_message = msg_plano
  /\ response = TemplateConvenio
  /\ CallPositions = {}

-----------------------------------------------------------------------------
(* C3 *)

\* C3: a message with a treatment or dependency keyword goes to the provider
\* chain whatever AI_PROVIDER is: a backend is called before any canned text is
\* chosen, and canned text is chosen only after every backend that was called
\* returned no text
C3_TreatmentQuestionsGoToProviders ==
  (Running /\ IsTreatmentQuestion[user_message]) =>
     /\ (pc = "fallback" \/ Resolved) => CallPositions # {}
     /\ Occurs("get_response_fallback") =>
          /\ \A i \in CallPositions : \A j \in Positions("get_response_fallback") : i < j
          /\ ~Occurs("text")
          /\ Cardinality(Positions("no text")) = Cardinality(CallPositions)

\* in fallback mode a treatment question went through the backends and then
\* to the classifier
C3_Witness ==
  /\ AI_PROVIDER = "fallback"
  /\ user_message = msg_como_funciona
  /\ Occurs("get_response_huggingface")
  /\ Occurs("get_response_gemini")
  /\ Occurs("get_response_fallback")

-----------------------------------------------------------------------------
(* C4 *)

\* C4: the chain stops at the first backend that returns a text that is not
\* empty: no backend is called after it, the classifier is not consulted, and
\* the call returns that text (rendered by translate_response in the language
\* of the call, the identity for 'pt')
C4_FirstTextWins ==
  Running =>
     /\ \A i \in Positions("text") : \A j \in CallPositions : j < i
     /\ Occurs("text") => ~Occurs("get_response_fallback")
     /\ (Occurs("text") /\ (pc = "fallback" \/ pc = "translate")) =>
          response = TextOf(LastCall)
     /\ (Occurs("text") /\ pc = "returned") =>
          response = translate_response(TextOf(LastCall), language)

\* OpenAI failed, Hugging Face returned a text, Gemini was not called and the
\* text of Hugging Face is the response
C4_Witness ==
  /\ pc = "returned"
  /\ log[Len(log) - 1] = "text"
  /\ Occurs("get_response_openai")
  /\ LastCall = "get_response_huggingface"
  /\ response = HuggingFaceText

-----------------------------------------------------------------------------
(* C5 *)

\* C5 as the specification states it: the backend that AI_PROVIDER names is
\* the first backend attempted (for 'openai', when its client could be built)
C5_NamedBackendFirst ==
  (/\ Running
   /\ CallPositions # {}
   /\ AI_PROVIDER \in {"openai", "huggingface", "gemini"}
   /\ AI_PROVIDER = "openai" => client \in ClientObjects)
  => FirstCall = "get_response_" \o AI_PROVIDER

-----------------------------------------------------------------------------
(* C6 *)

\* the three backend functions on every client, key and outcome of the request:
\* none raises, and a failure, a missing client or a missing key gives None
BackendFunctionsNeverRaise ==
  \A o \in Outcomes :
     /\ \A cl \in ClientValues :
          LET r == get_response_openai(cl, o)
          IN  ~r.raised /\ ((o \in Failures \/ cl \notin ClientObjects) => r.value = None)
     /\ \A k \in KeyStates :
          LET r == get_response_huggingface(k, o)
          IN  ~r.raised /\ (o \in Failures => r.value = None)
     /\ \A k \in KeyStates :
          LET r == get_response_gemini(k, o)
          IN  ~r.raised /\ ((o \in Failures \/ k = "unset") => r.value = None)

-----------------------------------------------------------------------------
(* C7 *)

\* C7 as the specification states it: a backend whose API key is absent is
\* skipped without a network request
C7_NoKeyNoRequest ==
  (Running /\ last_attempt.provider # "none" /\ last_attempt.api_key = "unset") =>
     last_attempt.request = "no request"

\* C7, amended: only Gemini is skipped without a request when its key is
\* absent, returning None so that the chain moves on; Hugging Face without a
\* key sends its request with no Authorization header, and OpenAI without a
\* key sends its request with the placeholder key of the client
C7_OnlyGeminiSkipsWithoutKey ==
  (Running /\ last_attempt.provider # "none") =>
     /\ (last_attempt.provider = "gemini" /\ last_attempt.api_key = "unset") =>
          /\ last_attempt.request = "no request"
          /\ last_attempt.value = None /\ ~last_attempt.raised
          /\ log[Len(log) - 1] = "get_response_gemini" /\ log[Len(log)] = "no text"
          /\ pc = "fallback"
     /\ (last_attempt.provider = "gemini" /\ last_attempt.api_key = "set") =>
          last_attempt.request = "key=GOOGLE_API_KEY"
     /\ last_attempt.provider = "huggingface" =>
          /\ last_attempt.request =
               IF last_attempt.api_key = "set"
                 THEN "Authorization: Bearer HUGGINGFACE_API_KEY"
                 ELSE "no Authorization header"
          /\ log[Len(log) - 1] = "request"
     /\ last_attempt.provider = "openai" =>
          /\ last_attempt.request =
               IF last_attempt.api_key = "set"
                 THEN "OpenAI(api_key=OPENAI_API_KEY)"
                 ELSE "OpenAI(api_key='sua_api_key_aqui')"
          /\ log[Len(log) - 1] = "request"

\* Gemini was called without a key: no request, None, and on to the fallback
C7_Witness ==
  /\ pc = "fallback"
  /\ last_attempt.provider = "gemini"
  /\ last_attempt.api_key = "unset"
  /\ last_attempt.request = "no request"
  /\ response = None

-----------------------------------------------------------------------------
(* C8 *)

\* C8 as the specification states it: when every backend of the chain yields
\* no text, a message of a canned category gets that category's template, and
\* a message of no category at all gets the generic treatments template
C8_GenericTemplateWhenNoCategory ==
  (Running /\ pc = "returned" /\ CallPositions # {} /\ ~Occurs("text")) =>
     IF NoCategory[user_message]
       THEN response = translate_response(TemplateTratamentos, language)
       ELSE Truthy(Fallback[user_message]) =>
              response = translate_response(Fallback[user_message], language)

\* C8, amended: when every backend of the chain yields no text, a message of
\* a canned category gets that category's template, a message of the
\* treatment or dependency category gets the generic treatments template, and
\* a message of no category at all gets the greeting template of the
\* classifier, which is another text
C8_GreetingTemplateWhenNoCategory ==
  (Running /\ pc = "returned" /\ CallPositions # {} /\ ~Occurs("text")) =>
     /\ Occurs("get_response_fallback")
     /\ TemplateSaudacao # TemplateTratamentos
     /\ IF NoCategory[user_message]
          THEN response = translate_response(TemplateSaudacao, language)
          ELSE IF Fallback[user_message] = None
            THEN response = translate_response(TemplateTratamentos, language)
            ELSE /\ Fallback[user_message] \in CannedTemplates \ {TemplateSaudacao}
                 /\ response = translate_response(Fallback[user_message], language)

\* a message of no category, with both backends failing, got the greeting
C8_Witness ==
  /\ pc = "returned"
  /\ user_message = msg_oi
  /\ language = "pt"
  /\ Occurs("get_response_huggingface")
  /\ Occurs("get_response_gemini")
  /\ ~Occurs("text")
  /\ response = TemplateSaudacao

-----------------------------------------------------------------------------
(* C9 *)

\* C9 as the specification states it: no failure inside get_response
\* propagates to its caller
C9_GetResponseNeverRaises == pc # "raised"

-----------------------------------------------------------------------------
(* C10 *)

\* C10 as the specification states it: the user message is appended to the
\* history first, the escalation decision comes second, the assistant message
\* is appended third
C10_UserAppendBeforeEscalation ==
  (Running /\ pc = "returned") =>
     /\ Precedes("append user", "detect_urgency_and_create_ticket")
     /\ Precedes("detect_urgency_and_create_ticket", "append assistant")

\* C10, amended: on every resolution path the sentiment analysis comes first,
\* the escalation decision (with the CRM sync) second, then the user message
\* is appended with its sentiment result, and the assistant message is
\* appended last
C10_EscalationBeforeUserAppend ==
  Running =>
     /\ Occurs("append user") =>
          /\ Once("analyze_sentiment") /\ Once("detect_urgency_and_create_ticket")
          /\ Once("sync_lead")
          /\ Precedes("analyze_sentiment", "detect_urgency_and_create_ticket")
          /\ Precedes("detect_urgency_and_create_ticket", "append user")
          /\ Precedes("sync_lead", "append user")
     /\ \A i \in Positions("append user") : \A j \in CallPositions : i < j
     /\ Precedes("append user", "get_response_fallback")
     /\ Occurs("append assistant") =>
          /\ Once("append user")
          /\ log[Len(log)] = "append assistant"
     /\ pc = "returned" =>
          LET history == conversation_history[self]
          IN  /\ Once("append assistant")
              /\ Len(history) >= 2
              /\ history[Len(history) - 1] =
                   [role |-> "user", content |-> user_message,
                    sentiment |-> sentiment_result]
              /\ history[Len(history)].role = "assistant"

\* the escalation decision is made, the lead is with the CRM, and the history
\* of the chatbot does not hold the user message yet
C10_Witness ==
  /\ pc = "append_user"
  /\ Occurs("detect_urgency_and_create_ticket")
  /\ Occurs("sync_lead")
  /\ lead_data.message = msg_socorro
  /\ conversation_history[self] = <<>>

-----------------------------------------------------------------------------
(* C11 *)

\* the session of the request served last, as the handler names it
Key == session_key(session_id, conversation_id)

TicketCount(key) == Cardinality({i \in 1..Len(tickets) : tickets[i].session_id = key})

\* C11: for the messages of one session id that /chat processes one after
\* another, the session never has more than one automatic ticket; once a message
\* has gone through the ticket step with the ticket store working the session
\* has exactly one, and a ticket is created only by a message that found none,
\* which the ticket describes
C11_OneTicketPerSession ==
  /\ \A k \in SessionIds \cup ConversationIds : TicketCount(k) <= 1
  /\ (/\ pc \in {"respond", "idle"}
      /\ Key # NoId
      /\ Occurs("get_tickets_by_session ok")
      /\ ~Occurs("create_ticket error")) => TicketCount(Key) = 1
  /\ Occurs("create_ticket ok") =>
       /\ tickets[Len(tickets)].session_id = Key
       /\ tickets[Len(tickets)].description = user_message

\* the second message of session s1 went through the ticket step with the
\* store working: no ticket was created, the one of the first message stays
C11_Witness ==
  /\ served = 2
  /\ pc = "respond"
  /\ session_id = "s1"
  /\ Occurs("get_tickets_by_session ok")
  /\ ~Occurs("create_ticket ok")
  /\ ~Occurs("create_ticket error")
  /\ Len(tickets) = 1
  /\ tickets[1].session_id = "s1"
  /\ tickets[1].description # user_message

-----------------------------------------------------------------------------
(* C12 *)

\* C12 as the specification states it: sync_lead is called once per
\* conversation session, for its first message and not again
C12_OneSyncPerSession ==
  \A c \in ConversationIds :
     Cardinality({i \in 1..Len(sync_lead_calls) : sync_lead_calls[i] = c}) <= 1


-----------------------------------------------------------------------------
(* Escalation priority and sentiment *)

Escalated == pc = "escalated"
HasKeywordOf(keywords, text) == \E k \in 1..Len(keywords) : Contains(keywords[k], text)
Rank(priority) == CASE priority = "baixa" -> 0 [] priority = "me'dia" -> 1 [] priority = "alta" -> 2

\* C13: a message with polarity below -0.5 that contains an emergency keyword
\* of the sentiment analyzer gets priority "alta", whatever the keyword pass
\* gave
C13_EmergencyKeywordForcesAlta ==
  (Escalated /\ sentiment_result.polarity < -500
     /\ HasKeywordOf(emergency_keywords, lower(clean_text(user_message))))
    => lead_data.urgency = "alta"

\* C14: the keyword pass gives "alta" for a message with a high-priority
\* keyword, else "media" for one with a medium-priority keyword, else "baixa";
\* a message with keywords of both lists gets "alta"
C14_KeywordPass ==
  LET high == HasKeywordOf(high_priority_keywords, lower(user_message))
      medium == HasKeywordOf(medium_priority_keywords, lower(user_message))
      expected == IF high THEN "alta" ELSE IF medium THEN "me'dia" ELSE "baixa"
  IN  /\ keyword_pass(user_message) = expected
      /\ (Escalated /\ sentiment_result.polarity >= -300) => lead_data.urgency = expected
      /\ (Escalated /\ sentiment_result.polarity >= -300 /\ high /\ medium)
            => lead_data.urgency = "alta"

C14_Witness ==
  /\ Escalated
  /\ user_message = msg_socorro_tratamento
  /\ HasKeywordOf(high_priority_keywords, lower(user_message))
  /\ HasKeywordOf(medium_priority_keywords, lower(user_message))
  /\ sentiment_result.polarity >= -300
  /\ lead_data.urgency = "alta"

\* C15: the sentiment adjustment never lowers the priority of the keyword
\* pass, and a polarity below -0.3 outside the forced branch changes only
\* "baixa", into "media"
C15_AdjustmentNeverLowers ==
  Escalated =>
    LET byKeywords == keyword_pass(user_message)
    IN  /\ Rank(lead_data.urgency) >= Rank(byKeywords)
        /\ (sentiment_result.polarity < -300 /\ ~forced_alta(sentiment_result))
              => lead_data.urgency = (IF byKeywords = "baixa" THEN "me'dia" ELSE byKeywords)

C15_Witness ==
  /\ Escalated
  /\ user_message = msg_socorro
  /\ keyword_pass(user_message) = "alta"
  /\ sentiment_result.polarity < -300
  /\ sentiment_result.polarity >= -500
  /\ lead_data.urgency = "alta"

\* C18: emergency_level is 'high' for two or more emergency keywords in the
\* lowercased cleaned text, 'medium' for one, 'low' for none; with 'high' the
\* sentiment is 'emergency' and the confidence at least 0.8, whatever the
\* polarity and the positive or negative keywords of the text
C18_EmergencyLevel ==
  pc \in {"analyzed", "escalated"} =>
    LET text == lower(clean_text(user_message))
        count == Cardinality({k \in 1..Len(emergency_keywords) :
                                HasKeywordOf(<<emergency_keywords[k]>>, text)})
    IN  /\ sentiment_result.emergency_level =
             (IF count >= 2 THEN "high" ELSE IF count = 1 THEN "medium" ELSE "low")
        /\ sentiment_result.emergency_level = "high" =>
             /\ sentiment_result.sentiment = "emergency"
             /\ sentiment_result.confidence >= 800

C18_Witness ==
  /\ pc = "analyzed"
  /\ user_message = msg_agora_feliz
  /\ HasKeywordOf(positive_keywords, lower(clean_text(user_message)))
  /\ sentiment_result.polarity > 100
  /\ sentiment_result.emergency_level = "high"
  /\ sentiment_result.sentiment = "emergency"
  /\ sentiment_result.confidence >= 800

-----------------------------------------------------------------------------
(* The automatic ticket and the collaborators of /chat *)

\* C16: the priority stored on the automatic ticket is the final priority
\* that escalation computed for the same message, the 'urgency' sent to CRM
\* sync
C16_TicketPriorityIsEscalationPriority ==
  Occurs("create_ticket ok") => tickets[Len(tickets)].priority = lead_data.urgency

\* the response get_response computes from the message and from what the
\* backends answered, whatever the collaborators of escalation and of the
\* handler did
ResponseOfPipeline ==
  IF Occurs("text") THEN TextOf(LastCall) ELSE fallback_response(user_message)

CollaboratorFailures ==
  {"save_conversation error", "get_tickets_by_session error", "create_ticket error",
   "send_ticket_notification error"}

\* a /chat request with a message to process has been answered
Answered == pc = "idle" /\ served > 0 /\ IsStr(user_message) /\ user_message # <<>>

\* C17: a failure of CRM sync, of saving the conversation, of the ticket
\* lookup, of ticket creation or of the e-mail notification is swallowed:
\* neither escalation nor the handler raises, and /chat answers 200 with the
\* response it returns when the collaborators succeed
C17_CollaboratorFailuresSwallowed ==
  /\ pc \notin {"raised", "except"}
  /\ Answered =>
       /\ http.status = 200
       /\ http.response = response
       /\ response = ResponseOfPipeline

C17_Witness ==
  /\ Answered
  /\ Occurs("sync_lead")
  /\ Occurs("save_conversation error")
  /\ Occurs("create_ticket error")
  /\ conversations = <<>>
  /\ tickets = <<>>
  /\ http.status = 200
  /\ http.response = fallback_response(user_message)

-----------------------------------------------------------------------------
(* normalize_text and the classifier *)

\* C19: the text normalize_text returns holds only characters of [a-z0-9]
\* and whitespace, the empty text gives the empty text, and normalizing the
\* returned text again gives the same text
C19_NormalizeIdempotent ==
  /\ pc \in {"normalized", "renormalized"} =>
       \A i \in 1..Len(response) : response[i] \in AsciiLower \cup Digits \cup Whitespace
  /\ (pc = "normalized" /\ user_message = <<>>) => response = <<>>
  /\ pc = "renormalized" => response = normalize_text(user_message)

C19_Witness ==
  /\ pc = "renormalized"
  /\ user_message = <<"C,", "!", "\t">>
  /\ response = <<"c", "\t">>

\* the branches of get_response_fallback in the order the claim gives them
CategoryOrder ==
  << [keywords |-> fallback_identificacao_keywords, result |-> TemplateIdentificacao],
     [keywords |-> fallback_tratamento_keywords \o fallback_dependencia_keywords,
      result |-> None],
     [keywords |-> fallback_internacao_keywords, result |-> TemplateInternacao],
     [keywords |-> fallback_convenio_keywords, result |-> TemplateConvenio],
     [keywords |-> fallback_emergencia_keywords, result |-> TemplateEmergencia],
     [keywords |-> fallback_contato_keywords, result |-> TemplateContato] >>

Matching(text) ==
  {c \in 1..Len(CategoryOrder) : contains_keywords(text, CategoryOrder[c].keywords)}

\* C20: the classifier returns the result of the earliest category, in the
\* order identification, treatment/dependency (None), admission, insurance,
\* emergency, contact, that has a keyword in the normalized message, and the
\* greeting template only when no category has one
C20_PriorityList ==
  pc = "classified" =>
    LET matching == Matching(user_message)
    IN  /\ matching # {} =>
             response = CategoryOrder[CHOOSE c \in matching : \A d \in matching : c <= d].result
        /\ response = TemplateSaudacao <=> matching = {}

C20_Witness ==
  /\ pc = "classified"
  /\ user_message = <<"l","i","g","a","r"," ","s","o","c","o","r","r","o">>
  /\ Matching(user_message) = {5, 6}
  /\ response = TemplateEmergencia

-----------------------------------------------------------------------------
(* Classification up to case and accents *)

\* the text in lower case with every accented letter replaced by its base
\* letter: two texts differ only in case or accents when this gives the same
BaseLetter(c) == IF c \in DOMAIN Decomposition THEN Decomposition[c][1] ELSE c
CaseAccentFold(text) == lower([i \in 1..Len(text) |-> BaseLetter(text[i])])

\* C21: get_response_fallback gives a message the category of every message
\* that differs from it only in case or accents, and a message holding an
\* identification keyword, in whatever case and accents, gets the
\* identification template
C21_CaseAndAccentInvariant ==
  pc = "classified" =>
    /\ \A other \in ClassifyMessages :
         CaseAccentFold(other) = CaseAccentFold(user_message)
           => get_response_fallback(other) = response
    /\ (\E k \in 1..Len(fallback_identificacao_keywords) :
          Contains(CaseAccentFold(fallback_identificacao_keywords[k]),
                   CaseAccentFold(user_message)))
         => response = TemplateIdentificacao

C21_Witness ==
  /\ pc = "classified"
  /\ user_message = <<"C","O","M","O"," ","I","D","E","N","T","I","F","I","C","A","R"," ","A","L","G","U","E'","M"," ","V","I","C","I","A","D","O">>
  /\ \E other \in ClassifyMessages :
       other # user_message /\ CaseAccentFold(other) = CaseAccentFold(user_message)
  /\ response = TemplateIdentificacao

-----------------------------------------------------------------------------
(* Translation *)

\* C24: translate_response is applied exactly when the language of the call
\* is not 'pt', to the text that was produced, of a backend or canned; for
\* 'pt' the produced text is returned as it is, and translate_response(text,
\* 'pt') is text
C24_TranslationExactlyWhenNotDefault ==
  /\ (Running /\ pc \in {"append_assistant", "returned"}) =>
       /\ Occurs("translate_response") <=> language # "pt"
       /\ language # "pt" => response = translate_response(ResponseOfPipeline, language)
       /\ language = "pt" => response = ResponseOfPipeline
  /\ \A text \in ProviderTexts \cup CannedTemplates \cup {TemplateTratamentos} :
       translate_response(text, "pt") = text

C24_Witness ==
  /\ pc = "returned"
  /\ language = "en"
  /\ Occurs("text")
  /\ Once("translate_response")
  /\ response # TextOf(LastCall)
  /\ response = translate_response(TextOf(LastCall), "en")

-----------------------------------------------------------------------------
(* Entry to the provider chain *)

InChain == pc \in {"try_openai", "try_huggingface", "try_gemini"}

\* C25: get_response enters the provider chain if and only if the message is
\* a treatment or dependency question or AI_PROVIDER is not 'fallback'; with
\* AI_PROVIDER 'fallback' and a message without such a keyword no backend is
\* invoked and the response is that of get_response_fallback
C25_ChainIffQuestionOrLive ==
  Running =>
    LET live == AI_PROVIDER # "fallback"
        question == IsTreatmentQuestion[user_message]
    IN  /\ InChain => (question \/ live)
        /\ (pc = "fallback" \/ Resolved) => (CallPositions # {} <=> (question \/ live))
        /\ (~live /\ ~question /\ Resolved) =>
             /\ ~Occurs("request")
             /\ Once("get_response_fallback")
             /\ pc = "returned" => response = translate_response(Fallback[user_message], language)

\* a greeting went through the backends because AI_PROVIDER is 'huggingface'
C25_Witness ==
  /\ pc = "returned"
  /\ AI_PROVIDER = "huggingface"
  /\ user_message = msg_oi
  /\ ~IsTreatmentQuestion[user_message]
  /\ FirstCall = "get_response_huggingface"
  /\ ~Occurs("text")
  /\ response = TemplateSaudacao

-----------------------------------------------------------------------------
(* The conversation history *)

History == conversation_history["chatbot"]

WellFormed(history) ==
  \A i \in 1..Len(history) :
     IF i % 2 = 1
       THEN history[i].role = "user" /\ "sentiment" \in DOMAIN history[i]
       ELSE history[i].role = "assistant" /\ "sentiment" \notin DOMAIN history[i]

\* the get_response call of the request has returned
Returned == pc \in {"returned", "auto_ticket", "respond"} \/ Answered

HistoryWellFormed ==
  /\ WellFormed(History)
  /\ pc = "idle" => Len(History) % 2 = 0
  /\ Returned =>
       /\ Once("append user") /\ Once("append assistant")
       /\ History[Len(History) - 1] =
            [role |-> "user", content |-> user_message, sentiment |-> sentiment_result]
       /\ History[Len(History)] = [role |-> "assistant", content |-> response]

HistoryAppendOnly ==
  /\ Len(History') \in {Len(History), Len(History) + 1}
  /\ SubSeq(History', 1, Len(History)) = History
  /\ Len(History') = Len(History) + 1 <=>
       /\ Len(log') = Len(log) + 1
       /\ log'[Len(log')] \in {"append user", "append assistant"}

\* C27: every get_response call leaves the earlier entries of the history as
\* they are and adds two, a 'user' entry with the sentiment result and then an
\* 'assistant' entry without sentiment whose content is the response; between
\* requests the history has even length and alternates user, assistant
C27_HistoryAppendOnlyWellFormed ==
  []HistoryWellFormed /\ [][HistoryAppendOnly]_vars

\* the second request has returned: the two entries of the first are below
\* the two it added
C27_Witness ==
  /\ served = 2
  /\ pc = "respond"
  /\ Len(History) = 4
  /\ History[1].role = "user" /\ History[1].content # user_message
  /\ History[3] = [role |-> "user", content |-> user_message, sentiment |-> sentiment_result]
  /\ History[4] = [role |-> "assistant", content |-> response]

-----------------------------------------------------------------------------
(* Termination *)

\* each backend was called at most once, and in the order OpenAI, Hugging
\* Face, Gemini
ChainOnceInOrder ==
  /\ \A call \in ProviderCalls : Cardinality(Positions(call)) <= 1
  /\ Precedes("get_response_openai", "get_response_huggingface")
  /\ Precedes("get_response_huggingface", "get_response_gemini")
  /\ Cardinality(Positions("request")) <= 3

-----------------------------------------------------------------------------
(* Empty messages *)

\* the step of a /chat request that is answered 400
Rejected == pc = "idle" /\ pc' = "idle" /\ served' = served + 1 /\ http'.status = 400

\* a message that is empty once stripped never reaches get_response, and is
\* answered 400
EmptyIsRejected ==
  /\ pc # "idle" => user_message # <<>>
  /\ (pc = "idle" /\ user_message = <<>>) => (http = [status |-> 400] /\ log = <<>>)

\* C29: a /chat request whose message is empty or whitespace only is answered
\* 400 and changes nothing: not the history, no backend call, no CRM sync, no
\* conversation row, no ticket
C29_EmptyMessageRejected ==
  /\ []EmptyIsRejected
  /\ [][Rejected => /\ user_message' = <<>>
                     /\ UNCHANGED <<conversation_history, sync_lead_calls, conversations,
                                    tickets>>
                     /\ log' = <<>>]_vars

\* the second request, with a blank message, was answered 400 and what the
\* first request left is still there
C29_Witness ==
  /\ served = 2
  /\ pc = "idle"
  /\ user_message = <<>>
  /\ http.status = 400
  /\ Len(conversation_history["chatbot"]) = 2
  /\ Len(sync_lead_calls) = 1
  /\ Len(conversations) = 1
  /\ Len(tickets) = 1

-----------------------------------------------------------------------------
(* Requests handled at the same time, and sessions *)

AllIdle == \A t \in Threads : threads[t].pc = "idle"

\* every user entry is followed at once by an assistant entry that answers it
PairedEntries(history) ==
  /\ Len(history) % 2 = 0
  /\ \A i \in 1..Len(history) :
       i % 2 = 1 =>
         /\ history[i].role = "user"
         /\ history[i + 1].role = "assistant"
         /\ history[i + 1].content \in {OpenAIText, fallback_response(history[i].content)}

\* C22: two messages of one session handled at the same time do not
\* interleave their appends: once both are answered, the history holds the
\* user message of each followed at once by its assistant message
C22_NoInterleavedAppends ==
  (/\ AllIdle
   /\ uuids = 0
   /\ \A i \in 1..Len(History) :
        History[i].role = "user" => History[i].content = MessagesOf["a"])
    => PairedEntries(History)

\* C23: a message sent on one session does not change the history, hence the
\* context sent to a backend, of a request of another session: the context
\* of a request holds user messages of its own browser only
C23_NoSharedHistory ==
  \A t \in Threads :
     \A i \in 1..Len(threads[t].context) :
        threads[t].context[i].role = "user"
          => threads[t].context[i].content = MessagesOf[threads[t].browser]

\* C26: two requests of one new session handled at the same time create at
\* most one automatic ticket between them: no two tickets are of the same
\* session
C26_OneTicketBetweenConcurrentRequests ==
  \A i, j \in 1..Len(tickets) :
     (i # j /\ tickets[i].session_id = tickets[j].session_id)
       => tickets[i].session_id = NoId

-----------------------------------------------------------------------------
(* /reset *)

ResetBegins(t) == threads[t].pc = "idle" /\ threads'[t].pc \in {"reset_save", "reset_clear"}
ResetSaves(t) == threads[t].pc = "reset_save" /\ threads'[t].pc = "reset_clear"
ResetClears(t) == threads[t].pc = "reset_clear" /\ threads'[t].pc = "idle"

\* the conversation ids in use: in a cookie, on a ticket, on a conversation
\* row or on a file
KnownIds ==
  {cookies[b] : b \in Browsers}
    \cup {tickets[i].session_id : i \in 1..Len(tickets)}
    \cup {conversations[i].session_id : i \in 1..Len(conversations)}
    \cup {files[i].conversation_id : i \in 1..Len(files)}

SavedFile(t) ==
  [conversation_id |-> threads[t].conversation_id,
   messages |-> conversation_history["chatbot"]]

\* C30 as stated: when /reset empties a history that is not empty, for a
\* session that has a conversation id, the history was saved before
C30_SavedBeforeCleared ==
  [][\A t \in Threads :
       (ResetClears(t) /\ History # <<>> /\ threads[t].conversation_id # NoId)
         => \E i \in 1..Len(files) : files[i] = SavedFile(t)]_vars

\* the get_response call that is the first since a reset has sent, as
\* context, the entry of its own message and nothing else
FirstContextAfterReset ==
  \A t \in Threads :
     (uuids > 0 /\ threads[t].pc = "append_assistant" /\ Len(History) = 1)
       => threads[t].context = <<[role |-> "user", content |-> threads[t].user_message,
                                  sentiment |-> threads[t].sentiment]>>

ResetStep(t) ==
  /\ ResetBegins(t) =>
       (threads'[t].pc = "reset_save"
          <=> (threads'[t].conversation_id # NoId /\ History # <<>>))
  /\ ResetSaves(t) =>
       /\ History' = History
       /\ files' = files \/ files' = Append(files, SavedFile(t))
  /\ ResetClears(t) =>
       /\ History' = <<>>
       /\ cookies'[threads[t].browser] \notin KnownIds \cup {NoId}
       /\ \A b \in Browsers \ {threads[t].browser} : cookies'[b] = cookies[b]

\* C30, amended: /reset leaves the history empty and gives the session a
\* fresh conversation id; when the history is not empty and the session has
\* a conversation id, save_conversation is called before the history is
\* emptied, and either writes the history to a file or, its exception being
\* swallowed, writes nothing; the next get_response sends a context that
\* holds the new message only
C30_ResetSavesIfItCanThenClears ==
  []FirstContextAfterReset /\ [][\A t \in Threads : ResetStep(t)]_vars

\* a message, a reset that saved its two entries, and the next message on
\* its way with a context of one entry
C30_Witness ==
  /\ uuids = 1
  /\ cookies["a"] = NewId(1)
  /\ Len(files) = 1
  /\ files[1].conversation_id = FirstId["a"]
  /\ Len(files[1].messages) = 2
  /\ threads["t1"].pc = "append_assistant"
  /\ threads["t1"].conversation_id = NewId(1)
  /\ History = threads["t1"].context
  /\ Len(threads["t1"].context) = 1

=============================================================================
